---- MODULE Spec2Model ----
(***************************************************************************)
(* Reactive state layer of the Cloud Storage Dashboard:                    *)
(*   - storageStore (stores/storageStore.ts) guarded by validateStorageData*)
(*     and validateFileItem (utils/validation.ts),                         *)
(*   - uiStore (stores/uiStore.ts) and tabRegistry (stores/tabRegistry.ts),*)
(*   - the svelte/store `writable` each of them is built on.               *)
(*                                                                         *)
(* Numbers.  Byte counts are modelled as integers and the correction       *)
(* Math.floor(v * (usedStorage / sum)) is computed exactly as              *)
(* floor(v * usedStorage / sum); the rounding of IEEE doubles is not       *)
(* modelled.  The default snapshot is written in units of 256 MiB          *)
(* (15 GiB = 60, 1 GiB = 4, 0.5 GiB = 2, 0.25 GiB = 1) so that products    *)
(* stay inside TLC's integers; the ratios of the defaults are preserved.   *)
(*                                                                         *)
(* Objects.  JavaScript objects are shared by reference.  The model keeps  *)
(* the contents of the stored snapshot (value) and of the module constant  *)
(* initialStorageData, and records in `alias` which of their parts are the *)
(* same object, so that a write through one reference is seen through the  *)
(* other.                                                                  *)
(***************************************************************************)
EXTENDS Integers, Sequences, FiniteSets, TLC

VARIABLES
  value,               \* contents of the snapshot held by writable() in storageStore
  initialStorageData,  \* contents of the module constant initialStorageData
  alias,               \* which objects of `value` are shared, and with whom
  now,                 \* the clock read by `new Date()`
  subscribers,         \* per store, the subscribers in subscription order
  last,                \* record of the last call made on storageStore
  uiState,             \* the snapshot held by writable() in uiStore
  tabs,                \* the list held by writable() in tabRegistry
  subscriber_queue,    \* svelte/store's module-level queue of pending calls
  stack,               \* the call stack: notification loops and running callbacks
  version,             \* per store, the number of snapshots published so far
  registered,          \* per store and published snapshot, the subscribers at that time
  calls,               \* per store and subscriber, the snapshots received since subscribing
  log,                 \* per store, the notifications delivered, in order
  ret,                 \* record of the last write that returned to its caller
  fetches              \* per fetchStorageData call, how far it has run

storeVars == <<value, initialStorageData, alias, now, subscribers, last>>
engineVars == <<uiState, tabs, subscriber_queue, stack, version, registered,
                calls, log, ret, fetches>>
vars == <<storeVars, engineVars>>

(***************************************************************************)
(* Bounds of the model.                                                    *)
(***************************************************************************)
MaxTime == 2    \* the clock runs from StartTime to MaxTime
MaxFiles == 2   \* addFile is exercised while fewer than MaxFiles files are stored

StartTime == 1  \* the time at which the module is loaded
InvalidDate == -1  \* a Date whose getTime() is NaN

\* the observers of storageStore in Spec
StorageObservers == {"s1"}

(***************************************************************************)
(* File records (types/index.ts FileItem) and the strings they carry.      *)
(***************************************************************************)
BlankStrings == {"", " "}

\* s.trim() === ''
IsBlank(s) == s \in BlankStrings

FileA1 == [id |-> "a", name |-> "a1.txt", size |-> 1, type |-> "text/plain",
           lastModified |-> 0, path |-> "/a1.txt"]
FileA2 == [id |-> "a", name |-> "a2.txt", size |-> 2, type |-> "text/plain",
           lastModified |-> 0, path |-> "/a2.txt"]
FileB == [id |-> "b", name |-> "b.png", size |-> 0, type |-> "image/png",
          lastModified |-> 0, path |-> "/b.png"]
FileBlankId == [id |-> " ", name |-> "c.txt", size |-> 1, type |-> "text/plain",
                lastModified |-> 0, path |-> "/c.txt"]
FileNegSize == [id |-> "d", name |-> "d.txt", size |-> -1, type |-> "text/plain",
                lastModified |-> 0, path |-> "/d.txt"]

FileIds == {"a", "b", "nonexistent"}

\* validation.ts validateFileItem: the six field checks, in order
validateFileItem(file) ==
  /\ ~IsBlank(file.id)
  /\ ~IsBlank(file.name)
  /\ file.size >= 0
  /\ ~IsBlank(file.type)
  /\ file.lastModified # InvalidDate
  /\ ~IsBlank(file.path)

(***************************************************************************)
(* storageByType mappings: functions from a set of type labels to numbers. *)
(* Object.entries / Object.values enumerate the keys in TypeOrder.         *)
(***************************************************************************)
TypeOrder == <<"documents", "images", "videos">>

EmptyMapping == [k \in {} |-> 0]

\* Object.values(m).reduce((a, b) => a + b, 0)
RECURSIVE SumOver(_, _)
SumOver(m, keys) ==
  IF keys = {} THEN 0
  ELSE LET k == CHOOSE x \in keys : TRUE
       IN m[k] + SumOver(m, keys \ {k})

SumValues(m) == SumOver(m, DOMAIN m)

\* Math.round in place of Math.floor
ScaleValueRounded(v, usedStorage, sum) == (2 * v * usedStorage + sum) \div (2 * sum)

\* Math.floor(v * scale) with scale = usedStorage / sum and sum > 0
ScaleValue(v, usedStorage, sum) == (v * usedStorage) \div sum

\* Object.fromEntries(Object.entries(m).map(([k, v]) => [k, Math.floor(v * scale)]))
ScaleMapping(m, usedStorage) ==
  [k \in DOMAIN m |-> ScaleValue(m[k], usedStorage, SumValues(m))]

\* a correction that rescales every mapping whose sum differs from usedStorage
NeedsScalingUnlessEqual(m, usedStorage) ==
  SumValues(m) # usedStorage /\ SumValues(m) > 0

\* the condition under which the correction replaces storageByType
NeedsScaling(m, usedStorage) == SumValues(m) > usedStorage /\ SumValues(m) > 0

\* storageStore.ts customSet 37-45 / customUpdate 63-70: fixedData
FixData(data) ==
  IF NeedsScaling(data.storageByType, data.usedStorage)
  THEN [data EXCEPT !.storageByType = ScaleMapping(data.storageByType, data.usedStorage)]
  ELSE data

(***************************************************************************)
(* validation.ts validateStorageData                                       *)
(***************************************************************************)
KeyError(k) ==
  CASE k = "documents" -> "storageByType['documents'] must be a non-negative number"
    [] k = "images" -> "storageByType['images'] must be a non-negative number"
    [] OTHER -> "storageByType['videos'] must be a non-negative number"

\* the messages pushed by the loop over Object.entries(storage.storageByType)
RECURSIVE KeyErrors(_, _)
KeyErrors(m, i) ==
  IF i > Len(TypeOrder) THEN <<>>
  ELSE (IF TypeOrder[i] \in DOMAIN m /\ m[TypeOrder[i]] < 0
        THEN <<KeyError(TypeOrder[i])>> ELSE <<>>) \o KeyErrors(m, i + 1)

\* the hard checks of lines 80-130, in the order the messages are pushed
HardErrors(data) ==
     (IF data.totalStorage <= 0
      THEN <<"totalStorage must be a positive number">> ELSE <<>>)
  \o (IF data.usedStorage < 0
      THEN <<"usedStorage must be a non-negative number">> ELSE <<>>)
  \o (IF data.usedStorage > data.totalStorage
      THEN <<"usedStorage cannot exceed totalStorage">> ELSE <<>>)
  \o KeyErrors(data.storageByType, 1)
  \o (IF SumValues(data.storageByType) > data.usedStorage
      THEN <<"Sum of storageByType cannot exceed usedStorage">> ELSE <<>>)
  \o (IF data.lastUpdated = InvalidDate
      THEN <<"lastUpdated must be a valid Date object">> ELSE <<>>)

\* a filter that lets every record through
KeepAllFiles(files) == files

\* lines 138-145: validFiles
RECURSIVE FilterValid(_)
FilterValid(files) ==
  IF files = <<>> THEN <<>>
  ELSE (IF validateFileItem(Head(files)) THEN <<Head(files)>> ELSE <<>>)
       \o FilterValid(Tail(files))

FilteredMessage(n) ==
  CASE n = 1 -> "Filtered out 1 invalid file item(s)"
    [] n = 2 -> "Filtered out 2 invalid file item(s)"
    [] OTHER -> "Filtered out N invalid file item(s)"

NoData == [isNull |-> TRUE]

\* a validation that counts a malformed file record among the hard errors
validateStorageDataRejectingFiles(data) ==
  LET errors == HardErrors(data)
                \o (IF FilterValid(data.files) # data.files
                    THEN <<"files contains an invalid file item">> ELSE <<>>)
  IN IF Len(errors) > 0
     THEN [isValid |-> FALSE, data |-> NoData, errors |-> errors]
     ELSE [isValid |-> TRUE, data |-> data, errors |-> <<>>]

\* validation.ts 66-166, for an argument of type StorageData
validateStorageData(data) ==
  LET errors == HardErrors(data)
      validFiles == FilterValid(data.files)
      filteredCount == Len(data.files) - Len(validFiles)
  IN IF Len(errors) > 0
     THEN [isValid |-> FALSE, data |-> NoData, errors |-> errors]
     ELSE [isValid |-> TRUE,
           data |-> [totalStorage |-> data.totalStorage,
                     usedStorage |-> data.usedStorage,
                     files |-> validFiles,
                     storageByType |-> data.storageByType,
                     lastUpdated |-> data.lastUpdated],
           errors |-> IF filteredCount > 0
                      THEN <<FilteredMessage(filteredCount)>> ELSE <<>>]

(***************************************************************************)
(* validateStorageData on a value of type unknown (validation.ts 66-135).  *)
(* A JavaScript value in a number position is a record [js, n]: js is      *)
(* "number" for the finite number n, "NaN" or "Infinity" (both of typeof    *)
(* number), or "string" for a value of another type.  files is             *)
(* [isArray, items], storageByType is [kind, m] with kind "object",        *)
(* "array" or "null", lastUpdated is [isDate, time].                       *)
(***************************************************************************)
TypeofNumber(x) == x.js \in {"number", "NaN", "Infinity"}

\* x <= y in place of x < y
JsLessOrEqual(x, y) ==
  /\ x.js = "number"
  /\ y.js = "Infinity" \/ (y.js = "number" /\ x.n <= y.n)

\* x < y for x and y of typeof number: false when either is NaN
JsLess(x, y) ==
  /\ x.js = "number"
  /\ y.js = "Infinity" \/ (y.js = "number" /\ x.n < y.n)

\* Object.values(m).reduce((sum, val) => sum + (typeof val === 'number' ? val : 0), 0)
RECURSIVE JsSum(_, _)
JsSum(m, keys) ==
  IF keys = {} THEN [js |-> "number", n |-> 0]
  ELSE LET k == CHOOSE x \in keys : TRUE
           rest == JsSum(m, keys \ {k})
           val == IF TypeofNumber(m[k]) THEN m[k] ELSE [js |-> "number", n |-> 0]
       IN IF val.js = "NaN" \/ rest.js = "NaN" THEN [js |-> "NaN", n |-> 0]
          ELSE IF val.js = "Infinity" \/ rest.js = "Infinity"
               THEN [js |-> "Infinity", n |-> 0]
               ELSE [js |-> "number", n |-> val.n + rest.n]

\* lines 111-115: the loop over Object.entries(storage.storageByType)
RECURSIVE UnknownKeyErrors(_, _)
UnknownKeyErrors(m, i) ==
  IF i > Len(TypeOrder) THEN <<>>
  ELSE (IF /\ TypeOrder[i] \in DOMAIN m
           /\ ~(m[TypeOrder[i]].js = "number" /\ m[TypeOrder[i]].n >= 0)
        THEN <<KeyError(TypeOrder[i])>> ELSE <<>>) \o UnknownKeyErrors(m, i + 1)

\* lines 80-130: the messages pushed for an object, in order
UnknownHardErrors(raw) ==
  LET total == raw.totalStorage
      used == raw.usedStorage
      sbt == raw.storageByType
  IN (IF ~(total.js = "number" /\ total.n > 0)
      THEN <<"totalStorage must be a positive number">> ELSE <<>>)
  \o (IF ~(used.js = "number" /\ used.n >= 0)
      THEN <<"usedStorage must be a non-negative number">> ELSE <<>>)
  \o (IF TypeofNumber(total) /\ TypeofNumber(used) /\ JsLess(total, used)
      THEN <<"usedStorage cannot exceed totalStorage">> ELSE <<>>)
  \o (IF ~raw.files.isArray THEN <<"files must be an array">> ELSE <<>>)
  \o (IF sbt.kind # "object" THEN <<"storageByType must be an object">> ELSE <<>>)
  \o (IF sbt.kind \in {"object", "array"}
      THEN UnknownKeyErrors(sbt.m, 1)
           \o (IF TypeofNumber(used) /\ JsLess(used, JsSum(sbt.m, DOMAIN sbt.m))
               THEN <<"Sum of storageByType cannot exceed usedStorage">>
               ELSE <<>>)
      ELSE <<>>)
  \o (IF ~raw.lastUpdated.isDate \/ raw.lastUpdated.time = InvalidDate
      THEN <<"lastUpdated must be a valid Date object">> ELSE <<>>)

\* data as Partial<StorageData>, for a value that passed the checks
Typed(raw) ==
  [totalStorage |-> raw.totalStorage.n,
   usedStorage |-> raw.usedStorage.n,
   files |-> raw.files.items,
   storageByType |-> [k \in DOMAIN raw.storageByType.m |-> raw.storageByType.m[k].n],
   lastUpdated |-> raw.lastUpdated.time]

\* validateStorageData(data: unknown)
validateUnknown(raw) ==
  IF ~raw.isObject
  THEN [isValid |-> FALSE, data |-> NoData,
        errors |-> <<"Storage data must be an object">>]
  ELSE IF Len(UnknownHardErrors(raw)) > 0
       THEN [isValid |-> FALSE, data |-> NoData, errors |-> UnknownHardErrors(raw)]
       ELSE validateStorageData(Typed(raw))

(***************************************************************************)
(* Inputs of the public API.                                               *)
(***************************************************************************)
TotalInputs == {0, 3}
UsedInputs == {-1, 0, 2, 4}
MappingInputs ==
  { EmptyMapping,
    [documents |-> 1],
    [documents |-> 3, images |-> 2],
    [documents |-> -1, images |-> 5] }
FileListInputs == { <<>>, <<FileA1, FileBlankId>>, <<FileB, FileA2>> }
FileInputs == {FileA2, FileNegSize}

\* a snapshot literal
Snapshot(t, u, fl, m, d) ==
  [totalStorage |-> t, usedStorage |-> u, files |-> fl,
   storageByType |-> m, lastUpdated |-> d]

\* candidate snapshots handed to set() and returned by update() callbacks:
\* candidates that pass, candidates that need the correction, and
\* candidates that break one or two of the hard checks
Candidates ==
  { Snapshot(3, u, <<>>, m, StartTime) :
      u \in {0, 2}, m \in {EmptyMapping, [documents |-> 3, images |-> 2]} }
  \cup
  { Snapshot(3, 0, fl, EmptyMapping, StartTime) : fl \in FileListInputs }
  \cup
  { Snapshot(0, 0, <<>>, EmptyMapping, StartTime),
    Snapshot(3, -1, <<>>, EmptyMapping, StartTime),
    Snapshot(3, 4, <<>>, EmptyMapping, StartTime),
    Snapshot(0, -1, <<>>, [documents |-> 3, images |-> 2], StartTime),
    Snapshot(3, 2, <<>>, [documents |-> 1], StartTime),
    Snapshot(3, 2, <<>>, [documents |-> -1, images |-> 5], StartTime),
    Snapshot(3, 2, <<FileA1>>, EmptyMapping, InvalidDate) }

\* m[k] = n on a JavaScript object
Put(m, k, n) == [x \in (DOMAIN m) \cup {k} |-> IF x = k THEN n ELSE m[x]]

(***************************************************************************)
(* Updater callbacks.  An updater receives the stored snapshot object      *)
(* itself (svelte's update(fn) calls fn(value)).  It is described by       *)
(*   result  : the contents of the object it returns,                      *)
(*   current : the contents of the stored object once it has run,          *)
(*   sbtFrom : where result.storageByType comes from: the stored object    *)
(*             ("current"), an object the caller keeps ("caller") or an    *)
(*             object nobody else holds ("fresh").                         *)
(***************************************************************************)
\* () => d
ConstUpdater(d) == [result |-> d, current |-> value, sbtFrom |-> "caller"]

\* (data) => ({ ...data, usedStorage: n })      storageStore.test.ts 139-142
SpreadUsed(n) ==
  [result |-> [value EXCEPT !.usedStorage = n], current |-> value, sbtFrom |-> "current"]

\* (data) => { data.usedStorage = n; return data; }
InPlaceUsed(n) ==
  [result |-> [value EXCEPT !.usedStorage = n],
   current |-> [value EXCEPT !.usedStorage = n], sbtFrom |-> "current"]

\* contents of initialStorageData once the stored object holds `cur`:
\* a write to a shared object is a write to initialStorageData
InPlaceInitial(cur) ==
  [totalStorage |-> IF alias.snap THEN cur.totalStorage
                    ELSE initialStorageData.totalStorage,
   usedStorage |-> IF alias.snap THEN cur.usedStorage
                   ELSE initialStorageData.usedStorage,
   files |-> IF alias.files THEN cur.files ELSE initialStorageData.files,
   storageByType |-> IF alias.sbt THEN cur.storageByType
                     ELSE initialStorageData.storageByType,
   lastUpdated |-> IF alias.snap THEN cur.lastUpdated
                   ELSE initialStorageData.lastUpdated]

(***************************************************************************)
(* svelte/store writable, as used by storageStore.ts:32.                   *)
(*   set(v)      stores v and calls every subscriber with it, in           *)
(*               subscription order (safe_not_equal is true of objects).   *)
(*   update(fn)  is set(fn(value)).                                        *)
(* In Spec the subscribers only record what they receive.                  *)
(***************************************************************************)
Call(op, threw, errors, notified) ==
  [op |-> op, threw |-> threw, errors |-> errors, notified |-> notified]

\* errors.join(', ')
RECURSIVE JoinErrors(_)
JoinErrors(errors) ==
  IF errors = <<>> THEN ""
  ELSE IF Len(errors) = 1 THEN errors[1]
       ELSE errors[1] \o ", " \o JoinErrors(Tail(errors))

\* lines 51 and 76: throw new Error(`Invalid storage data: ${errors.join(', ')}`)
Thrown(op, errors) ==
  [op |-> op, threw |-> TRUE, errors |-> errors, notified |-> <<>>,
   message |-> "Invalid storage data: " \o JoinErrors(errors)]

\* baseSet(v): publish v; shared says which objects of v are shared
baseSet(op, v, shared) ==
  /\ value' = v
  /\ alias' = shared
  /\ last' = Call(op, FALSE, <<>>, subscribers.storage)

\* a set() that validates the candidate as given, without the correction
customSetWithoutCorrection(op, data) ==
  LET validation == validateStorageData(data)
  IN /\ IF ~validation.isValid
        THEN /\ last' = Thrown(op, validation.errors)
             /\ UNCHANGED <<value, alias>>
        ELSE baseSet(op, validation.data,
                     [snap |-> FALSE, files |-> FALSE, sbt |-> FALSE, arg |-> TRUE])
     /\ UNCHANGED <<initialStorageData, now, subscribers, engineVars>>

\* storageStore.ts 35-55
customSet(op, data) ==
  LET validation == validateStorageData(FixData(data))
      scaled == NeedsScaling(data.storageByType, data.usedStorage)
  IN /\ IF ~validation.isValid
        THEN /\ last' = Thrown(op, validation.errors)
             /\ UNCHANGED <<value, alias>>
        ELSE baseSet(op, validation.data,
                     [snap |-> FALSE, files |-> FALSE, sbt |-> FALSE,
                      arg |-> ~scaled])
     /\ UNCHANGED <<initialStorageData, now, subscribers, engineVars>>

\* storageStore.ts 58-81: what customUpdate does to the store's own data
customUpdateData(up) ==
  LET validation == validateStorageData(FixData(up.result))
      scaled == NeedsScaling(up.result.storageByType, up.result.usedStorage)
  IN /\ initialStorageData' = InPlaceInitial(up.current)
     /\ IF ~validation.isValid
        THEN /\ value' = up.current
             /\ UNCHANGED alias
        ELSE /\ value' = validation.data
             /\ alias' = [snap |-> FALSE, files |-> FALSE,
                          sbt |-> ~scaled /\ up.sbtFrom = "current" /\ alias.sbt,
                          arg |-> ~scaled /\ (\/ up.sbtFrom = "caller"
                                              \/ up.sbtFrom = "current" /\ alias.arg)]

\* storageStore.ts 58-81, the subscribers only recording what they receive
customUpdate(op, up) ==
  LET validation == validateStorageData(FixData(up.result))
  IN /\ customUpdateData(up)
     /\ last' = IF ~validation.isValid
                THEN Thrown(op, validation.errors)
                ELSE Call(op, FALSE, <<>>, subscribers.storage)
     /\ UNCHANGED <<now, subscribers, engineVars>>

(***************************************************************************)
(* The public operations of storageStore (storageStore.ts 83-237).         *)
(***************************************************************************)
Set(d) == customSet("set", d)

Update(up) == customUpdate("update", up)

\* the snapshots returned by () => d callbacks
ReturnedCandidates ==
  { Snapshot(3, 2, <<>>, EmptyMapping, StartTime),
    Snapshot(3, 2, <<>>, [documents |-> 3, images |-> 2], StartTime),
    Snapshot(3, 0, <<FileA1, FileBlankId>>, EmptyMapping, StartTime),
    Snapshot(0, -1, <<>>, [documents |-> 3, images |-> 2], StartTime) }

UpdateConst == \E d \in ReturnedCandidates : Update(ConstUpdater(d))
UpdateSpread == \E n \in {-1, 2} : Update(SpreadUsed(n))
UpdateInPlace == \E n \in {-1, 2} : Update(InPlaceUsed(n))

\* the same without the new Date()
UsedStorageUpdaterNoStamp(usedStorage) ==
  [result |-> [value EXCEPT !.usedStorage = usedStorage],
   current |-> value, sbtFrom |-> "current"]

\* (data) => ({ ...data, usedStorage, lastUpdated: new Date() })
UsedStorageUpdater(usedStorage) ==
  [result |-> [value EXCEPT !.usedStorage = usedStorage, !.lastUpdated = now],
   current |-> value, sbtFrom |-> "current"]

\* an updateUsedStorage that rejects a value below the sum of storageByType
updateUsedStorageRejecting(usedStorage) ==
  IF SumValues(value.storageByType) > usedStorage
  THEN /\ last' = Thrown("updateUsedStorage",
                         <<"Sum of storageByType cannot exceed usedStorage">>)
       /\ UNCHANGED <<value, initialStorageData, alias, now, subscribers, engineVars>>
  ELSE customUpdate("updateUsedStorage", UsedStorageUpdater(usedStorage))

\* lines 114-120
updateUsedStorage(usedStorage) ==
  customUpdate("updateUsedStorage", UsedStorageUpdater(usedStorage))

updateTotalStorage(totalStorage) ==
  customUpdate("updateTotalStorage",
    [result |-> [value EXCEPT !.totalStorage = totalStorage, !.lastUpdated = now],
     current |-> value, sbtFrom |-> "current"])

updateFiles(files) ==
  customUpdate("updateFiles",
    [result |-> [value EXCEPT !.files = files, !.lastUpdated = now],
     current |-> value, sbtFrom |-> "current"])

addFile(file) ==
  /\ Len(value.files) < MaxFiles
  /\ customUpdate("addFile",
       [result |-> [value EXCEPT !.files = Append(@, file), !.lastUpdated = now],
        current |-> value, sbtFrom |-> "current"])

\* the list without its first record whose id is fileId
RECURSIVE RemoveFirstId(_, _)
RemoveFirstId(files, fileId) ==
  IF files = <<>> THEN <<>>
  ELSE IF Head(files).id = fileId THEN Tail(files)
  ELSE <<Head(files)>> \o RemoveFirstId(Tail(files), fileId)

\* data.files.filter((f) => f.id !== fileId)
RECURSIVE FilterOutId(_, _)
FilterOutId(files, fileId) ==
  IF files = <<>> THEN <<>>
  ELSE (IF Head(files).id # fileId THEN <<Head(files)>> ELSE <<>>)
       \o FilterOutId(Tail(files), fileId)

removeFile(fileId) ==
  customUpdate("removeFile",
    [result |-> [value EXCEPT !.files = FilterOutId(@, fileId), !.lastUpdated = now],
     current |-> value, sbtFrom |-> "current"])

\* lines 196-206: fixedStorageByType, always a new object
FixedStorageByType(storageByType, usedStorage) ==
  IF NeedsScaling(storageByType, usedStorage)
  THEN ScaleMapping(storageByType, usedStorage)
  ELSE storageByType

updateStorageByType(storageByType) ==
  customUpdate("updateStorageByType",
    [result |-> [value EXCEPT
                   !.storageByType = FixedStorageByType(storageByType, value.usedStorage),
                   !.lastUpdated = now],
     current |-> value, sbtFrom |-> "fresh"])

\* the same update made through customUpdate, with correction and validation
updateTimestampValidated ==
  customUpdate("updateTimestamp",
    [result |-> [value EXCEPT !.lastUpdated = now],
     current |-> value, sbtFrom |-> "current"])

\* lines 221-226: baseUpdate, no correction and no validation
updateTimestamp ==
  /\ baseSet("updateTimestamp", [value EXCEPT !.lastUpdated = now],
             [alias EXCEPT !.snap = FALSE])
  /\ UNCHANGED <<initialStorageData, now, subscribers, engineVars>>

\* lines 231-236: baseSet({ ...initialStorageData, lastUpdated: new Date() })
reset ==
  /\ baseSet("reset", [initialStorageData EXCEPT !.lastUpdated = now],
             [snap |-> FALSE, files |-> TRUE, sbt |-> TRUE, arg |-> FALSE])
  /\ UNCHANGED <<initialStorageData, now, subscribers, engineVars>>

(***************************************************************************)
(* subscribe / unsubscribe on storageStore, and the passing of time.       *)
(***************************************************************************)
RECURSIVE Without(_, _)
Without(seq, x) ==
  IF seq = <<>> THEN <<>>
  ELSE (IF Head(seq) = x THEN <<>> ELSE <<Head(seq)>>) \o Without(Tail(seq), x)

InSeq(seq, x) == \E i \in 1..Len(seq) : seq[i] = x

\* subscribers.add(subscriber); run(value)
Subscribe(s) ==
  /\ ~InSeq(subscribers.storage, s)
  /\ subscribers' = [subscribers EXCEPT !.storage = Append(@, s)]
  /\ last' = Call("subscribe", FALSE, <<>>, <<s>>)
  /\ UNCHANGED <<value, initialStorageData, alias, now, engineVars>>

\* subscribers.delete(subscriber)
Unsubscribe(s) ==
  /\ InSeq(subscribers.storage, s)
  /\ subscribers' = [subscribers EXCEPT !.storage = Without(@, s)]
  /\ last' = Call("unsubscribe", FALSE, <<>>, <<>>)
  /\ UNCHANGED <<value, initialStorageData, alias, now, engineVars>>

Tick ==
  /\ now < MaxTime
  /\ now' = now + 1
  /\ UNCHANGED <<value, initialStorageData, alias, subscribers, last, engineVars>>

(***************************************************************************)
(* uiStore (uiStore.ts) and tabRegistry (tabRegistry.ts).                  *)
(***************************************************************************)
initialUIState ==
  [activeTabId |-> "storage-overview", theme |-> "auto",
   isLoading |-> FALSE, error |-> "null"]

\* uiStore.ts 56-61: (state) => ({ ...state, activeTabId: tabId })
setActiveTab(state, tabId) == [state EXCEPT !.activeTabId = tabId]

\* a theme setter that also drops the error message
setThemeClearingError(state, theme) ==
  [state EXCEPT !.theme = theme, !.error = "null"]

\* uiStore.ts 70-75: (state) => ({ ...state, theme })
setTheme(state, theme) == [state EXCEPT !.theme = theme]

\* uiStore.ts 84-89: (state) => ({ ...state, isLoading })
setLoading(state, isLoading) == [state EXCEPT !.isLoading = isLoading]

\* uiStore.ts 98-103: (state) => ({ ...state, error })
setError(state, error) == [state EXCEPT !.error = error]

\* uiStore.ts 110-115: (state) => ({ ...state, error: null })
clearError(state) == [state EXCEPT !.error = "null"]

DefaultOrder == 100

\* a.order ?? 100
EffectiveOrder(tab) == IF tab.hasOrder THEN tab.order ELSE DefaultOrder

\* place tab in front of the entries of the same order
RECURSIVE InsertBeforeEqual(_, _)
InsertBeforeEqual(sorted, tab) ==
  IF sorted = <<>> THEN <<tab>>
  ELSE IF EffectiveOrder(Head(sorted)) < EffectiveOrder(tab)
       THEN <<Head(sorted)>> \o InsertBeforeEqual(Tail(sorted), tab)
       ELSE <<tab>> \o sorted

\* place tab behind every entry whose order is not greater
RECURSIVE InsertByOrder(_, _)
InsertByOrder(sorted, tab) ==
  IF sorted = <<>> THEN <<tab>>
  ELSE IF EffectiveOrder(Head(sorted)) <= EffectiveOrder(tab)
       THEN <<Head(sorted)>> \o InsertByOrder(Tail(sorted), tab)
       ELSE <<tab>> \o sorted

\* a registry that keeps the order in which it was handed the entries
KeepOrder(list) == list

\* [...tabs].sort((a, b) => orderA - orderB), a stable sort
RECURSIVE sortTabs(_)
sortTabs(list) ==
  IF list = <<>> THEN <<>>
  ELSE InsertByOrder(sortTabs(SubSeq(list, 1, Len(list) - 1)), list[Len(list)])

HasTabId(list, id) == \E i \in 1..Len(list) : list[i].id = id

\* a registration without the check for a registered id
registerTabAppending(list, tabDef) ==
  sortTabs(Append(list, [tabDef EXCEPT !.hasOrder = TRUE,
                                       !.order = EffectiveOrder(tabDef)]))

\* a registration that replaces the entry registered under the same id
registerTabReplacing(list, tabDef) ==
  sortTabs(Append(SelectSeq(list, LAMBDA t : t.id # tabDef.id),
                  [tabDef EXCEPT !.hasOrder = TRUE,
                                 !.order = EffectiveOrder(tabDef)]))

\* the list the update callback of registerTab returns
registerTabResult(list, tabDef) ==
  IF HasTabId(list, tabDef.id) THEN list
  ELSE sortTabs(Append(list, [tabDef EXCEPT !.hasOrder = TRUE,
                                            !.order = EffectiveOrder(tabDef)]))

\* tabs.filter((tab) => tab.id !== tabId)
unregisterTabResult(list, tabId) == SelectSeq(list, LAMBDA t : t.id # tabId)

TabOne == [id |-> "t1", label |-> "One", hasOrder |-> TRUE, order |-> 10]
TabOneAgain == [id |-> "t1", label |-> "Other", hasOrder |-> FALSE, order |-> 0]

Stores == {"storage", "ui", "tabs"}

\* the callbacks that subscribe to each store in SpecNotify
ObserversOf == [storage |-> {"s1"}, ui |-> {"s1", "s2"}, tabs |-> {"s2"}]

NoReturn == [nested |-> FALSE, pending |-> 0]

\* the number of fetchStorageData calls that can be outstanding together
MaxFetches == 2

\* no call of fetchStorageData has been made
NoFetches == [c \in 1..MaxFetches |-> [pc |-> "idle"]]

(***************************************************************************)
(* The storage store under calls of its public API.                        *)
(***************************************************************************)
InitialSnapshot ==
  [totalStorage |-> 60, usedStorage |-> 4, files |-> <<>>,
   storageByType |-> [documents |-> 2, images |-> 1, videos |-> 1],
   lastUpdated |-> StartTime]

Init ==
  /\ value = InitialSnapshot
  /\ initialStorageData = InitialSnapshot
  /\ alias = [snap |-> TRUE, files |-> TRUE, sbt |-> TRUE, arg |-> FALSE]
  /\ now = StartTime
  /\ subscribers = [st \in Stores |-> <<>>]
  /\ last = Call("init", FALSE, <<>>, <<>>)
  /\ uiState = initialUIState
  /\ tabs = <<>>
  /\ subscriber_queue = <<>>
  /\ stack = <<>>
  /\ version = [st \in Stores |-> 0]
  /\ registered = [st \in Stores |-> <<>>]
  /\ calls = [st \in Stores |-> [s \in ObserversOf[st] |-> <<>>]]
  /\ log = [st \in Stores |-> <<>>]
  /\ ret = NoReturn
  /\ fetches = NoFetches

\* the calls of the store's operations
NextCall ==
  \/ \E d \in Candidates : Set(d)
  \/ UpdateConst
  \/ UpdateSpread
  \/ \E n \in UsedInputs : updateUsedStorage(n)
  \/ \E n \in TotalInputs : updateTotalStorage(n)
  \/ \E fl \in FileListInputs : updateFiles(fl)
  \/ \E f \in FileInputs : addFile(f)
  \/ \E id \in FileIds : removeFile(id)
  \/ \E m \in MappingInputs : updateStorageByType(m)
  \/ updateTimestamp
  \/ reset
  \/ \E s \in StorageObservers : Subscribe(s)
  \/ \E s \in StorageObservers : Unsubscribe(s)

Next == NextCall \/ Tick

Spec == Init /\ [][Next]_vars

(***************************************************************************)
(* validateStorageData applied to one value of type unknown.               *)
(***************************************************************************)
UnknownInputs ==
  { [isObject |-> TRUE, totalStorage |-> t, usedStorage |-> u, files |-> f,
     storageByType |-> m, lastUpdated |-> d] :
      t \in { [js |-> "number", n |-> 0], [js |-> "number", n |-> 3],
              [js |-> "NaN", n |-> 0], [js |-> "Infinity", n |-> 0],
              [js |-> "string", n |-> 0] },
      u \in { [js |-> "number", n |-> -1], [js |-> "number", n |-> 0],
              [js |-> "number", n |-> 2], [js |-> "number", n |-> 3],
              [js |-> "number", n |-> 4], [js |-> "NaN", n |-> 0],
              [js |-> "string", n |-> 0] },
      f \in { [isArray |-> TRUE, items |-> <<>>],
              [isArray |-> TRUE, items |-> <<FileA1, FileBlankId>>],
              [isArray |-> TRUE, items |-> <<FileNegSize, FileB, FileBlankId>>],
              [isArray |-> FALSE, items |-> <<>>] },
      m \in { [kind |-> "object", m |-> EmptyMapping],
              [kind |-> "object", m |-> [documents |-> [js |-> "number", n |-> 2]]],
              [kind |-> "object", m |-> [documents |-> [js |-> "number", n |-> 3],
                                         images |-> [js |-> "number", n |-> 2]]],
              [kind |-> "object", m |-> [documents |-> [js |-> "number", n |-> -1],
                                         images |-> [js |-> "number", n |-> 1]]],
              [kind |-> "object", m |-> [documents |-> [js |-> "NaN", n |-> 0]]],
              [kind |-> "object", m |-> [images |-> [js |-> "string", n |-> 0]]],
              [kind |-> "array", m |-> EmptyMapping],
              [kind |-> "null", m |-> EmptyMapping] },
      d \in { [isDate |-> TRUE, time |-> StartTime],
              [isDate |-> TRUE, time |-> InvalidDate],
              [isDate |-> FALSE, time |-> StartTime] } }
  \cup { [isObject |-> FALSE] }

InitValidate ==
  /\ value = InitialSnapshot
  /\ initialStorageData = InitialSnapshot
  /\ alias = [snap |-> TRUE, files |-> TRUE, sbt |-> TRUE, arg |-> FALSE]
  /\ now = StartTime
  /\ subscribers = [st \in Stores |-> <<>>]
  /\ \E raw \in UnknownInputs :
       last = [op |-> "input", threw |-> FALSE, errors |-> <<>>,
               notified |-> <<>>, arg |-> raw]
  /\ uiState = initialUIState
  /\ tabs = <<>>
  /\ subscriber_queue = <<>>
  /\ stack = <<>>
  /\ version = [st \in Stores |-> 0]
  /\ registered = [st \in Stores |-> <<>>]
  /\ calls = [st \in Stores |-> [s \in ObserversOf[st] |-> <<>>]]
  /\ log = [st \in Stores |-> <<>>]
  /\ ret = NoReturn
  /\ fetches = NoFetches

\* const result = validateStorageData(arg)
Validate ==
  /\ last.op = "input"
  /\ last' = [op |-> "validateStorageData", threw |-> FALSE,
              errors |-> validateUnknown(last.arg).errors, notified |-> <<>>,
              arg |-> last.arg, result |-> validateUnknown(last.arg)]
  /\ UNCHANGED <<value, initialStorageData, alias, now, subscribers, engineVars>>

SpecValidate == InitValidate /\ [][Validate]_vars

(***************************************************************************)
(* The same, with callers whose update() callback writes to the object it  *)
(* is handed instead of building a new one.                                *)
(***************************************************************************)
NextInPlace == NextCall \/ UpdateInPlace

SpecInPlace == Init /\ [][NextInPlace]_vars

(***************************************************************************)
(* Callers whose update() callback pushes a record onto the files array of *)
(* the object it is handed, next to the calls that deal with files.        *)
(***************************************************************************)
\* (data) => { data.files.push(f); data.usedStorage = n; return data; }
InPlacePush(f, n) ==
  [result |-> [value EXCEPT !.files = Append(@, f), !.usedStorage = n],
   current |-> [value EXCEPT !.files = Append(@, f), !.usedStorage = n],
   sbtFrom |-> "current"]

UpdateInPlacePush ==
  /\ Len(value.files) < MaxFiles
  /\ \E f \in FileInputs : \E n \in {-1, 2} : Update(InPlacePush(f, n))

NextInPlaceFiles ==
  \/ UpdateInPlacePush
  \/ \E n \in UsedInputs : updateUsedStorage(n)
  \/ \E fl \in FileListInputs : updateFiles(fl)
  \/ \E f \in FileInputs : addFile(f)
  \/ \E id \in FileIds : removeFile(id)
  \/ updateTimestamp
  \/ reset
  \/ \E s \in StorageObservers : Subscribe(s)
  \/ \E s \in StorageObservers : Unsubscribe(s)
  \/ Tick

SpecInPlaceFiles == Init /\ [][NextInPlaceFiles]_vars

(***************************************************************************)
(* Code outside the store that keeps a reference to an object the store    *)
(* also holds.  A subscriber is handed the stored snapshot object itself   *)
(* (writable calls run(value)); the caller of set() keeps the candidate,   *)
(* whose storageByType object validateStorageData copies by reference      *)
(* into validatedData (validation.ts 153-159) unless the correction        *)
(* replaced it.                                                            *)
(***************************************************************************)
\* a subscriber does snapshot.storageByType[k] = n on the snapshot it received
HolderWritesType(k, n) ==
  /\ subscribers.storage # <<>>
  /\ value' = [value EXCEPT !.storageByType = Put(@, k, n)]
  /\ initialStorageData' = InPlaceInitial(value')
  /\ last' = Call("holderWrite", FALSE, <<>>, <<>>)
  /\ UNCHANGED <<alias, now, subscribers, engineVars>>

\* a subscriber does snapshot.files.push(f) on the snapshot it received
HolderPushesFile(f) ==
  /\ subscribers.storage # <<>>
  /\ Len(value.files) < MaxFiles
  /\ value' = [value EXCEPT !.files = Append(@, f)]
  /\ initialStorageData' = InPlaceInitial(value')
  /\ last' = Call("holderWrite", FALSE, <<>>, <<>>)
  /\ UNCHANGED <<alias, now, subscribers, engineVars>>

\* the caller of set(data) does data.storageByType[k] = n afterwards
CallerWritesType(k, n) ==
  /\ last.op = "set" /\ ~last.threw
  /\ value' = IF alias.arg THEN [value EXCEPT !.storageByType = Put(@, k, n)]
              ELSE value
  /\ last' = Call("callerWrite", FALSE, <<>>, <<>>)
  /\ UNCHANGED <<initialStorageData, alias, now, subscribers, engineVars>>

\* the caller of set(data) does data.files.push(f) afterwards: validFiles is
\* a new array, the stored snapshot does not see the push
CallerPushesFile(f) ==
  /\ last.op = "set" /\ ~last.threw
  /\ last' = Call("callerWrite", FALSE, <<>>, <<>>)
  /\ UNCHANGED <<value, initialStorageData, alias, now, subscribers, engineVars>>

NextAlias ==
  \/ \E d \in ReturnedCandidates : Set(d)
  \/ \E n \in UsedInputs : updateUsedStorage(n)
  \/ reset
  \/ \E s \in StorageObservers : Subscribe(s)
  \/ \E s \in StorageObservers : Unsubscribe(s)
  \/ \E k \in {"documents"}, n \in {9} : HolderWritesType(k, n)
  \/ \E f \in {FileNegSize} : HolderPushesFile(f)
  \/ \E k \in {"documents"}, n \in {9} : CallerWritesType(k, n)
  \/ \E f \in {FileNegSize} : CallerPushesFile(f)

SpecAlias == Init /\ [][NextAlias]_vars

(***************************************************************************)
(* The three stores with callbacks that call back into the stores.  Each   *)
(* store is a svelte/store writable:                                       *)
(*                                                                         *)
(*   set(new_value):                                                       *)
(*     value = new_value                                                   *)
(*     if (stop) {                       // the store has subscribers      *)
(*       const run_queue = !subscriber_queue.length                        *)
(*       for (const subscriber of subscribers)                             *)
(*         subscriber_queue.push(subscriber, value)                        *)
(*       if (run_queue) {                                                  *)
(*         for (let i = 0; i < subscriber_queue.length; i += 2)            *)
(*           subscriber_queue[i][0](subscriber_queue[i + 1])               *)
(*         subscriber_queue.length = 0 } }                                 *)
(*   update(fn): set(fn(value))                                            *)
(*   subscribe(run): subscribers.add(subscriber); run(value);              *)
(*                   return () => subscribers.delete(subscriber)           *)
(*                                                                         *)
(* subscriber_queue is one queue for all stores.  A frame of `stack` is    *)
(* either a notification loop ("flush", n = index of the next entry) or a  *)
(* running callback ("callback", n = the calls it may still make).         *)
(* version[st] counts the calls of st's set(); registered[st] keeps, for   *)
(* each of them, the subscribers at that moment and whether the store's    *)
(* operation accepted the mutation; calls and log record the callbacks     *)
(* run; ret describes the write that returned last.                        *)
(***************************************************************************)
MaxWrites == 2   \* calls of set() in one behaviour, over the three stores
MaxNested == 1   \* calls a callback makes into the stores while it runs

\* a flush frame remembers the write (store, ver) that runs the loop
Frame(kind, n, store, ver) == [kind |-> kind, n |-> n, store |-> store, ver |-> ver]

CallbackFrame == Frame("callback", MaxNested, "-", 0)

Quiet == stack = <<>>

InCallback == stack # <<>> /\ Head(stack).kind = "callback" /\ Head(stack).n > 0

\* code runs: the application, or a callback that may still call
CanCall == Quiet \/ InCallback

\* the stack once the running callback has made one of its calls
Spent ==
  IF Quiet THEN stack
  ELSE <<[Head(stack) EXCEPT !.n = @ - 1]>> \o Tail(stack)

Published == version["storage"] + version["ui"] + version["tabs"]

\* for (const subscriber of subscribers) subscriber_queue.push(subscriber, value)
QueueEntries(st, ver) ==
  [i \in 1..Len(subscribers[st]) |->
     [store |-> st, sub |-> subscribers[st][i], ver |-> ver]]

\* entries of write (st, ver) in the queue from index `from` on
Pending(queue, st, ver, from) ==
  Cardinality({i \in from..Len(queue) : queue[i].store = st /\ queue[i].ver = ver})

\* writable.set(new_value) of store st, once value has been assigned
Notify(st, accepted) ==
  /\ Published < MaxWrites
  /\ version' = [version EXCEPT ![st] = @ + 1]
  /\ registered' = [registered EXCEPT
                      ![st] = Append(@, [subs |-> subscribers[st],
                                         accepted |-> accepted])]
  /\ subscriber_queue' = subscriber_queue \o QueueEntries(st, version[st] + 1)
  /\ IF subscribers[st] # <<>> /\ subscriber_queue = <<>>
     THEN /\ stack' = <<Frame("flush", 1, st, version[st] + 1)>> \o Spent
          /\ UNCHANGED ret
     ELSE /\ stack' = Spent
          /\ ret' = [nested |-> subscriber_queue # <<>>,
                     pending |-> Len(subscribers[st])]
  /\ UNCHANGED <<subscribers, calls, log>>

\* a call that ends without reaching set()
NoNotify(st) ==
  /\ stack' = Spent
  /\ ret' = [nested |-> subscriber_queue # <<>>, pending |-> 0]
  /\ UNCHANGED <<subscribers, subscriber_queue, version, registered, calls, log>>

\* the loop calls subscriber_queue[i][0](subscriber_queue[i + 1])
Deliver ==
  /\ stack # <<>> /\ Head(stack).kind = "flush"
  /\ Head(stack).n <= Len(subscriber_queue)
  /\ LET e == subscriber_queue[Head(stack).n]
     IN /\ stack' = <<CallbackFrame,
                      [Head(stack) EXCEPT !.n = @ + 1]>> \o Tail(stack)
        /\ calls' = [calls EXCEPT ![e.store][e.sub] = Append(@, e.ver)]
        /\ log' = [log EXCEPT ![e.store] = Append(@, <<e.ver, e.sub>>)]
  /\ UNCHANGED <<fetches, storeVars, uiState, tabs, subscriber_queue, version, registered, ret>>

\* a callback returns
CallbackReturn ==
  /\ stack # <<>> /\ Head(stack).kind = "callback"
  /\ stack' = Tail(stack)
  /\ UNCHANGED <<fetches, storeVars, uiState, tabs, subscriber_queue, version, registered,
                 calls, log, ret>>

\* the loop stops before all queued entries have been called
FlushStopsEarly ==
  /\ stack # <<>> /\ Head(stack).kind = "flush"
  /\ Head(stack).n > 1
  /\ subscriber_queue' = <<>>
  /\ stack' = Tail(stack)
  /\ ret' = [nested |-> FALSE,
             pending |-> Pending(subscriber_queue, Head(stack).store,
                                 Head(stack).ver, Head(stack).n)]
  /\ UNCHANGED <<fetches, storeVars, uiState, tabs, version, registered, calls, log>>

\* the loop has reached the end of the queue: subscriber_queue.length = 0,
\* and the write that ran the loop returns
FlushDone ==
  /\ stack # <<>> /\ Head(stack).kind = "flush"
  /\ Head(stack).n > Len(subscriber_queue)
  /\ subscriber_queue' = <<>>
  /\ stack' = Tail(stack)
  /\ ret' = [nested |-> FALSE,
             pending |-> Pending(subscriber_queue, Head(stack).store,
                                 Head(stack).ver, Head(stack).n)]
  /\ UNCHANGED <<fetches, storeVars, uiState, tabs, version, registered, calls, log>>

\* subscribe without the immediate run(value)
SubscribeWithoutRun(st, s) ==
  /\ CanCall
  /\ calls[st][s] = <<>>
  /\ ~InSeq(subscribers[st], s)
  /\ subscribers' = [subscribers EXCEPT ![st] = Append(@, s)]
  /\ calls' = [calls EXCEPT ![st][s] = <<>>]
  /\ stack' = Spent
  /\ UNCHANGED <<fetches, value, initialStorageData, alias, now, last, uiState, tabs,
                 subscriber_queue, version, registered, log, ret>>

\* store.subscribe(run): the callback runs at once with the current value
NotifySubscribe(st, s) ==
  /\ CanCall
  /\ calls[st][s] = <<>>
  /\ ~InSeq(subscribers[st], s)
  /\ subscribers' = [subscribers EXCEPT ![st] = Append(@, s)]
  /\ calls' = [calls EXCEPT ![st][s] = <<version[st]>>]
  /\ stack' = <<CallbackFrame>> \o Spent
  /\ UNCHANGED <<fetches, value, initialStorageData, alias, now, last, uiState, tabs,
                 subscriber_queue, version, registered, log, ret>>

\* the function subscribe() returned is called
NotifyUnsubscribe(st, s) ==
  /\ CanCall
  /\ InSeq(subscribers[st], s)
  /\ subscribers' = [subscribers EXCEPT ![st] = Without(@, s)]
  /\ stack' = Spent
  /\ UNCHANGED <<fetches, value, initialStorageData, alias, now, last, uiState, tabs,
                 subscriber_queue, version, registered, calls, log, ret>>

Accepts(up) == validateStorageData(FixData(up.result)).isValid

\* customUpdate reaches baseSet for every candidate, valid or not
StorageAlwaysSets(accepted) == Notify("storage", accepted)

\* storageStore.ts 69-80: throw before baseSet, or baseSet(validation.data)
StorageOutcome(accepted) ==
  IF accepted THEN Notify("storage", TRUE) ELSE NoNotify("storage")

\* storageStore.updateUsedStorage(n)
WriteUsedStorage(n) ==
  /\ CanCall
  /\ customUpdateData(UsedStorageUpdater(n))
  /\ StorageOutcome(Accepts(UsedStorageUpdater(n)))
  /\ UNCHANGED <<fetches, now, last, uiState, tabs>>

\* uiStore.setLoading(b)
WriteLoading(b) ==
  /\ CanCall
  /\ uiState' = setLoading(uiState, b)
  /\ Notify("ui", TRUE)
  /\ UNCHANGED <<fetches, storeVars, tabs>>

\* tabRegistry.registerTab(tabDef): update() sets what the callback returns,
\* the unchanged list included
WriteRegisterTab(tabDef) ==
  /\ CanCall
  /\ tabs' = registerTabResult(tabs, tabDef)
  /\ Notify("tabs", ~HasTabId(tabs, tabDef.id))
  /\ UNCHANGED <<fetches, storeVars, uiState>>

\* tabRegistry.unregisterTab(tabId)
WriteUnregisterTab(tabId) ==
  /\ CanCall
  /\ tabs' = unregisterTabResult(tabs, tabId)
  /\ Notify("tabs", HasTabId(tabs, tabId))
  /\ UNCHANGED <<fetches, storeVars, uiState>>

NextNotify ==
  \/ \E st \in Stores : \E s \in ObserversOf[st] : NotifySubscribe(st, s)
  \/ \E st \in Stores : \E s \in ObserversOf[st] : NotifyUnsubscribe(st, s)
  \/ \E n \in {-1, 2} : WriteUsedStorage(n)
  \/ \E b \in {TRUE} : WriteLoading(b)
  \/ \E tabDef \in {TabOne, TabOneAgain} : WriteRegisterTab(tabDef)
  \/ \E tabId \in {"t1"} : WriteUnregisterTab(tabId)
  \/ Deliver
  \/ CallbackReturn
  \/ FlushDone

SpecNotify == Init /\ [][NextNotify]_vars

(***************************************************************************)
(* The UI store under calls of its setters.  update(fn) is set(fn(state)): *)
(* the object the callback returns becomes the stored state and the        *)
(* subscribers of the store are called with it.  null is written "null".   *)
(***************************************************************************)
TabIdInputs == {"storage-overview", "files", "settings"}
ThemeInputs == {"light", "dark", "auto"}
ErrorInputs == {"null", "disk full"}

\* update(fn) of uiStore's writable
uiUpdate(op, state) ==
  /\ uiState' = state
  /\ last' = Call(op, FALSE, <<>>, subscribers.ui)
  /\ UNCHANGED <<fetches, value, initialStorageData, alias, now, subscribers, tabs,
                 subscriber_queue, stack, version, registered, calls, log, ret>>

CallSetActiveTab(tabId) == uiUpdate("setActiveTab", setActiveTab(uiState, tabId))
CallSetTheme(theme) == uiUpdate("setTheme", setTheme(uiState, theme))
CallSetLoading(isLoading) == uiUpdate("setLoading", setLoading(uiState, isLoading))
CallSetError(error) == uiUpdate("setError", setError(uiState, error))
CallClearError == uiUpdate("clearError", clearError(uiState))

\* uiStore.ts 120-122: set(initialUIState)
CallUIReset == uiUpdate("uiReset", initialUIState)

NextUI ==
  \/ \E tabId \in TabIdInputs : CallSetActiveTab(tabId)
  \/ \E theme \in ThemeInputs : CallSetTheme(theme)
  \/ \E isLoading \in BOOLEAN : CallSetLoading(isLoading)
  \/ \E error \in ErrorInputs : CallSetError(error)
  \/ CallClearError
  \/ CallUIReset

SpecUI == Init /\ [][NextUI]_vars

(***************************************************************************)
(* The tab registry under calls of its public API.  last records the call, *)
(* the entry or id it was given and the boolean it returned.               *)
(***************************************************************************)
TabNegative == [id |-> "t2", label |-> "Two", hasOrder |-> TRUE, order |-> -5]
TabZero == [id |-> "t3", label |-> "Three", hasOrder |-> TRUE, order |-> 0]
TabNoOrder == [id |-> "t4", label |-> "Four", hasOrder |-> FALSE, order |-> 0]

TabHundred == [id |-> "t5", label |-> "Five", hasOrder |-> TRUE, order |-> 100]

TabInputs == {TabOne, TabOneAgain, TabNegative, TabZero, TabNoOrder, TabHundred}
TabIds == {"t1", "t2", "t4", "missing"}

\* lists handed to set(): unsorted, with entries without order, with two
\* entries of the same id
TabListInputs ==
  { <<TabOne, TabNegative>>,
    <<TabNoOrder, TabZero, TabOneAgain>>,
    <<TabOne, TabOneAgain>> }

TabCall(op, arg, returned) ==
  [op |-> op, threw |-> FALSE, errors |-> <<>>, notified |-> subscribers.tabs,
   arg |-> arg, returned |-> returned]

\* set(new_value) of the registry's writable
tabsSet(list, call) ==
  /\ tabs' = list
  /\ last' = call
  /\ UNCHANGED <<fetches, value, initialStorageData, alias, now, subscribers, uiState,
                 subscriber_queue, stack, version, registered, calls, log, ret>>

\* hasTab(tabId): tabs.some((tab) => tab.id === tabId) on the current list
hasTab(list, tabId) == HasTabId(list, tabId)

\* registerTab(tabDef) returns registrationSuccessful
registerTab(tabDef) ==
  tabsSet(registerTabResult(tabs, tabDef),
          TabCall("registerTab", tabDef, ~HasTabId(tabs, tabDef.id)))

\* an unregisterTab that reaches set() only when an entry was removed
unregisterTabSilentWhenAbsent(tabId) ==
  tabsSet(unregisterTabResult(tabs, tabId),
          [TabCall("unregisterTab", tabId, HasTabId(tabs, tabId)) EXCEPT
             !.notified = IF HasTabId(tabs, tabId) THEN subscribers.tabs
                          ELSE <<>>])

\* unregisterTab(tabId) returns removalSuccessful
unregisterTab(tabId) ==
  tabsSet(unregisterTabResult(tabs, tabId),
          TabCall("unregisterTab", tabId,
                  Len(unregisterTabResult(tabs, tabId)) < Len(tabs)))

\* set(tabs): set(sortTabs(tabs))
setTabs(list) == tabsSet(sortTabs(list), TabCall("setTabs", list, FALSE))

\* clear(): set([])
clear == tabsSet(<<>>, TabCall("clear", <<>>, FALSE))

NextTabs ==
  \/ \E tabDef \in TabInputs : registerTab(tabDef)
  \/ \E tabId \in TabIds : unregisterTab(tabId)
  \/ \E list \in TabListInputs : setTabs(list)
  \/ clear

SpecTabs == Init /\ [][NextTabs]_vars

\* the registry with subscribers: writable.set(new_value) calls every
\* subscriber whenever new_value is an object (safe_not_equal), and update(fn)
\* is set(fn(value))
TabObservers == {"o1", "o2"}

\* tabRegistry.subscribe(run)
TabsSubscribe(s) ==
  /\ ~InSeq(subscribers.tabs, s)
  /\ subscribers' = [subscribers EXCEPT !.tabs = Append(@, s)]
  /\ last' = TabCall("subscribe", s, FALSE)
  /\ UNCHANGED <<value, initialStorageData, alias, now, engineVars>>

\* the function subscribe() returned is called
TabsUnsubscribe(s) ==
  /\ InSeq(subscribers.tabs, s)
  /\ subscribers' = [subscribers EXCEPT !.tabs = Without(@, s)]
  /\ last' = TabCall("unsubscribe", s, FALSE)
  /\ UNCHANGED <<value, initialStorageData, alias, now, engineVars>>

NextTabsObserved ==
  \/ NextTabs
  \/ \E s \in TabObservers : TabsSubscribe(s)
  \/ \E s \in TabObservers : TabsUnsubscribe(s)

SpecTabsObserved == Init /\ [][NextTabsObserved]_vars

\* the registry when set() is only handed lists of pairwise distinct ids
DistinctIds(list) ==
  \A i, j \in 1..Len(list) : list[i].id = list[j].id => i = j

NextTabsDistinct ==
  \/ \E tabDef \in TabInputs : registerTab(tabDef)
  \/ \E tabId \in TabIds : unregisterTab(tabId)
  \/ \E list \in {l \in TabListInputs : DistinctIds(l)} : setTabs(list)
  \/ clear

SpecTabsDistinct == Init /\ [][NextTabsDistinct]_vars

(***************************************************************************)
(* fetchStorageData(apiEndpoint) (utils/fetchStorageData.ts).  A call runs *)
(* to its first await, then step by step as its promises settle; other     *)
(* calls run in between.  fetches[c].pc is "idle" when call slot c is free, *)
(* "fetching" while the call awaits fetch(), "parsing" while it awaits      *)
(* response.json().                                                         *)
(***************************************************************************)
\* the values response.json() resolves with, written like the argument of
\* validateUnknown; lastUpdated.isDate says whether rawData.lastUpdated is
\* truthy, lastUpdated.time what new Date(rawData.lastUpdated) gives
FetchPayloads ==
  { [isObject |-> TRUE,
     totalStorage |-> [js |-> "number", n |-> 3],
     usedStorage |-> [js |-> "number", n |-> 2],
     files |-> [isArray |-> TRUE, items |-> <<FileA1, FileBlankId>>],
     storageByType |-> [kind |-> "object",
                        m |-> [documents |-> [js |-> "number", n |-> 2]]],
     lastUpdated |-> [isDate |-> TRUE, time |-> 0]],
    [isObject |-> TRUE,
     totalStorage |-> [js |-> "number", n |-> 3],
     usedStorage |-> [js |-> "number", n |-> 0],
     files |-> [isArray |-> FALSE, items |-> <<>>],
     storageByType |-> [kind |-> "object", m |-> EmptyMapping],
     lastUpdated |-> [isDate |-> FALSE, time |-> 0]],
    [isObject |-> TRUE,
     totalStorage |-> [js |-> "number", n |-> 3],
     usedStorage |-> [js |-> "number", n |-> 2],
     files |-> [isArray |-> TRUE, items |-> <<>>],
     storageByType |-> [kind |-> "object",
                        m |-> [documents |-> [js |-> "number", n |-> 3],
                               images |-> [js |-> "number", n |-> 2]]],
     lastUpdated |-> [isDate |-> TRUE, time |-> 0]],
    [isObject |-> TRUE,
     totalStorage |-> [js |-> "number", n |-> 3],
     usedStorage |-> [js |-> "number", n |-> 2],
     files |-> [isArray |-> TRUE, items |-> <<>>],
     storageByType |-> [kind |-> "object", m |-> EmptyMapping],
     lastUpdated |-> [isDate |-> TRUE, time |-> InvalidDate]] }

\* the ways fetch() ends without an ok response: it rejects, or resolves with
\* a response whose ok is false
FailedResponses ==
  { [kind |-> "network", status |-> 0],
    [kind |-> "http", status |-> 404],
    [kind |-> "http", status |-> 500] }

\* `${response.status}`
StatusString(status) ==
  CASE status = 404 -> "404"
    [] status = 500 -> "500"
    [] OTHER -> "0"

\* lines 262-271: dataWithDates
dataWithDates(rawData, t) ==
  [rawData EXCEPT
     !.lastUpdated = IF rawData.lastUpdated.isDate
                     THEN [isDate |-> TRUE, time |-> rawData.lastUpdated.time]
                     ELSE [isDate |-> TRUE, time |-> t],
     !.files = IF rawData.files.isArray THEN rawData.files
               ELSE [isArray |-> TRUE, items |-> <<>>]]

\* a validation that runs behind the correction of storageByType
fetchValidateCorrected(data) ==
  IF data.storageByType.kind = "object" /\ data.usedStorage.js = "number"
     /\ \A k \in DOMAIN data.storageByType.m : data.storageByType.m[k].js = "number"
  THEN validateUnknown(
         [data EXCEPT !.storageByType.m =
            LET fixed == FixedStorageByType(Typed(data).storageByType,
                                            data.usedStorage.n)
            IN [k \in DOMAIN fixed |-> [js |-> "number", n |-> fixed[k]]]])
  ELSE validateUnknown(data)

\* line 274: const validation = validateStorageData(dataWithDates)
fetchValidate(data) == validateUnknown(data)

\* a catch block that only clears the loading flag
fetchCatchWithoutError(state, errorMessage) == setLoading(state, FALSE)

\* lines 298-302: uiStore.setError(errorMessage); uiStore.setLoading(false)
fetchCatch(state, errorMessage) == setLoading(setError(state, errorMessage), FALSE)

\* lines 262-292 for the parsed body rawData at time t: the error thrown, or
\* the snapshot storageStore.set publishes
FetchOutcome(rawData, t) ==
  LET validation == fetchValidate(dataWithDates(rawData, t))
      validatedData == [validation.data EXCEPT !.lastUpdated = t]
      stored == validateStorageData(FixData(validatedData))
  IN IF ~validation.isValid
     THEN [ok |-> FALSE,
           message |-> "Invalid storage data received: "
                       \o JoinErrors(validation.errors)]
     ELSE IF ~stored.isValid
          THEN [ok |-> FALSE,
                message |-> "Invalid storage data: " \o JoinErrors(stored.errors)]
          ELSE [ok |-> TRUE, data |-> stored.data]

FetchCall(op, c, threw, message, input) ==
  [op |-> op, threw |-> threw, errors |-> <<>>, notified |-> <<>>,
   call |-> c, message |-> message, input |-> input]

\* call c has issued its request and has not settled
Outstanding(c) == fetches[c].pc \in {"fetching", "parsing"}

(***************************************************************************)
(* The code keeps no record of the order in which calls were made.  The    *)
(* model does, to tell a late response from a timely one: for an           *)
(* outstanding call c, fetches[c].after is the set of outstanding calls    *)
(* made before c, and fetches[c].overtakenBy holds the bodies published by *)
(* calls that were made after c and have resolved already.                 *)
(***************************************************************************)
\* fetches once call c has settled; published is the set holding the body
\* it has published, empty when it has failed
Settled(c, published) ==
  [d \in 1..MaxFetches |->
     IF d = c \/ fetches[d].pc = "idle" THEN [pc |-> "idle"]
     ELSE [fetches[d] EXCEPT
             !.after = @ \ {c},
             !.overtakenBy = IF d \in fetches[c].after THEN @ \cup published
                             ELSE @]]

\* the return of call c with validatedData
ResolvedCall(c, notified) ==
  [op |-> "fetchResolved", threw |-> FALSE, errors |-> <<>>,
   notified |-> notified, call |-> c, message |-> "",
   input |-> fetches[c].body, overtakenBy |-> fetches[c].overtakenBy]

\* lines 241-246: the call runs up to `await fetch(...)`
FetchStart(c) ==
  /\ fetches[c].pc = "idle"
  /\ uiState' = clearError(setLoading(uiState, TRUE))
  /\ fetches' = [fetches EXCEPT ![c] =
                   [pc |-> "fetching",
                    after |-> {d \in 1..MaxFetches : Outstanding(d)},
                    overtakenBy |-> {}]]
  /\ last' = FetchCall("fetchStart", c, FALSE, "", <<>>)
  /\ UNCHANGED <<value, initialStorageData, alias, now, subscribers, tabs,
                 subscriber_queue, stack, version, registered, calls, log, ret>>

\* fetch() rejects, or resolves with a response that is not ok (lines
\* 254-256); the catch block runs and the call rejects
FetchFails(c, response) ==
  LET message == IF response.kind = "network" THEN "Failed to fetch"
                 ELSE "HTTP error! status: " \o StatusString(response.status)
  IN /\ fetches[c].pc = "fetching"
     /\ uiState' = fetchCatch(uiState, message)
     /\ fetches' = Settled(c, {})
     /\ last' = FetchCall("fetchRejected", c, TRUE, message, response)
     /\ UNCHANGED <<value, initialStorageData, alias, now, subscribers, tabs,
                    subscriber_queue, stack, version, registered, calls, log, ret>>

\* fetch() resolves with an ok response; the call awaits response.json()
FetchResponds(c, body) ==
  /\ fetches[c].pc = "fetching"
  /\ fetches' = [fetches EXCEPT ![c] =
                   [pc |-> "parsing", body |-> body, after |-> fetches[c].after,
                    overtakenBy |-> fetches[c].overtakenBy]]
  /\ last' = FetchCall("fetchResponse", c, FALSE, "", body)
  /\ UNCHANGED <<value, initialStorageData, alias, now, subscribers, uiState,
                 tabs, subscriber_queue, stack, version, registered, calls,
                 log, ret>>

\* a call that drops its response when a call made after it has published
FetchParsesDroppingLate(c) ==
  /\ fetches[c].pc = "parsing"
  /\ LET outcome == FetchOutcome(fetches[c].body, now)
     IN IF outcome.ok
        THEN /\ IF fetches[c].overtakenBy = {}
                THEN /\ value' = outcome.data
                     /\ alias' = [snap |-> FALSE, files |-> FALSE, sbt |-> FALSE,
                                  arg |-> TRUE]
                ELSE UNCHANGED <<value, alias>>
             /\ uiState' = setLoading(uiState, FALSE)
             /\ last' = ResolvedCall(c, subscribers.storage)
             /\ fetches' = Settled(c, {fetches[c].body})
        ELSE /\ uiState' = fetchCatch(uiState, outcome.message)
             /\ last' = FetchCall("fetchRejected", c, TRUE, outcome.message,
                                  fetches[c].body)
             /\ fetches' = Settled(c, {})
             /\ UNCHANGED <<value, alias>>
  /\ UNCHANGED <<initialStorageData, now, subscribers, tabs, subscriber_queue,
                 stack, version, registered, calls, log, ret>>

\* response.json() resolves: lines 262-297, or the catch block
FetchParses(c) ==
  /\ fetches[c].pc = "parsing"
  /\ LET outcome == FetchOutcome(fetches[c].body, now)
     IN IF outcome.ok
        THEN /\ value' = outcome.data
             /\ alias' = [snap |-> FALSE, files |-> FALSE, sbt |-> FALSE,
                          arg |-> TRUE]
             /\ uiState' = setLoading(uiState, FALSE)
             /\ last' = ResolvedCall(c, subscribers.storage)
             /\ fetches' = Settled(c, {fetches[c].body})
        ELSE /\ uiState' = fetchCatch(uiState, outcome.message)
             /\ last' = FetchCall("fetchRejected", c, TRUE, outcome.message,
                                  fetches[c].body)
             /\ fetches' = Settled(c, {})
             /\ UNCHANGED <<value, alias>>
  /\ UNCHANGED <<initialStorageData, now, subscribers, tabs, subscriber_queue,
                 stack, version, registered, calls, log, ret>>

NextFetch ==
  \/ \E c \in 1..MaxFetches : FetchStart(c)
  \/ \E c \in 1..MaxFetches : \E response \in FailedResponses : FetchFails(c, response)
  \/ \E c \in 1..MaxFetches : \E body \in FetchPayloads : FetchResponds(c, body)
  \/ \E c \in 1..MaxFetches : FetchParses(c)
  \/ Tick

SpecFetch == Init /\ [][NextFetch]_vars

(***************************************************************************)
(* The same calls as the subscribers of the two stores see them.  The run  *)
(* of a successful call after response.json() makes two writes, each with  *)
(* its own round of notifications: storageStore.set(validatedData) (line   *)
(* 292) and uiStore.setLoading(false) (line 295).  A subscriber of the     *)
(* storage store is called between the two.  fetches[c].pc is "published"  *)
(* there; nothing but the rest of the run can happen next, the run being   *)
(* synchronous.                                                            *)
(***************************************************************************)
\* a run is between its two writes
MidRun == \E c \in 1..MaxFetches : fetches[c].pc = "published"

\* one write that publishes the snapshot and clears the loading flag
FetchPublishesAndClears(c) ==
  /\ fetches[c].pc = "parsing"
  /\ FetchOutcome(fetches[c].body, now).ok
  /\ value' = FetchOutcome(fetches[c].body, now).data
  /\ alias' = [snap |-> FALSE, files |-> FALSE, sbt |-> FALSE, arg |-> TRUE]
  /\ uiState' = setLoading(uiState, FALSE)
  /\ fetches' = [fetches EXCEPT ![c].pc = "published"]
  /\ last' = [FetchCall("fetchPublished", c, FALSE, "", fetches[c].body)
                EXCEPT !.notified = subscribers.storage]
  /\ UNCHANGED <<initialStorageData, now, subscribers, tabs, subscriber_queue,
                 stack, version, registered, calls, log, ret>>

\* lines 262-292: response.json() resolves with a body that passes; the run
\* goes up to and including storageStore.set(validatedData)
FetchPublishes(c) ==
  /\ fetches[c].pc = "parsing"
  /\ FetchOutcome(fetches[c].body, now).ok
  /\ value' = FetchOutcome(fetches[c].body, now).data
  /\ alias' = [snap |-> FALSE, files |-> FALSE, sbt |-> FALSE, arg |-> TRUE]
  /\ fetches' = [fetches EXCEPT ![c].pc = "published"]
  /\ last' = [FetchCall("fetchPublished", c, FALSE, "", fetches[c].body)
                EXCEPT !.notified = subscribers.storage]
  /\ UNCHANGED <<initialStorageData, now, subscribers, uiState, tabs,
                 subscriber_queue, stack, version, registered, calls, log, ret>>

\* lines 295-297: uiStore.setLoading(false); return validatedData
FetchSettles(c) ==
  /\ fetches[c].pc = "published"
  /\ uiState' = setLoading(uiState, FALSE)
  /\ fetches' = Settled(c, {fetches[c].body})
  /\ last' = ResolvedCall(c, subscribers.ui)
  /\ UNCHANGED <<value, initialStorageData, alias, now, subscribers, tabs,
                 subscriber_queue, stack, version, registered, calls, log, ret>>

\* response.json() resolves with a body that is rejected: the catch block
FetchRejects(c) ==
  /\ fetches[c].pc = "parsing"
  /\ ~FetchOutcome(fetches[c].body, now).ok
  /\ FetchParses(c)

NextFetchObserved ==
  \/ ~MidRun /\ \E c \in 1..MaxFetches : FetchStart(c)
  \/ ~MidRun /\ \E c \in 1..MaxFetches : \E response \in FailedResponses :
                  FetchFails(c, response)
  \/ ~MidRun /\ \E c \in 1..MaxFetches : \E body \in FetchPayloads :
                  FetchResponds(c, body)
  \/ ~MidRun /\ \E c \in 1..MaxFetches : FetchRejects(c)
  \/ ~MidRun /\ \E c \in 1..MaxFetches : FetchPublishes(c)
  \/ \E c \in 1..MaxFetches : FetchSettles(c)
  \/ ~MidRun /\ \E s \in StorageObservers : Subscribe(s)
  \/ ~MidRun /\ Tick

SpecFetchObserved == Init /\ [][NextFetchObserved]_vars

(***************************************************************************)
(* Dashboard.svelte, initializeDashboard (lines 16-29), run from onMount.  *)
(* It has no await: it runs as one step.  generateMockData() is declared   *)
(* to return a StorageData; initializeDashboard hands whatever it gets to  *)
(* storageStore.set inside try / catch.  The snapshot of the shipped       *)
(* generator has a storageByType sum above usedStorage (by rounding), which *)
(* the store scales and accepts; the second snapshot is one of the declared *)
(* type that the store rejects, the case the catch block is written for.   *)
(***************************************************************************)
MockSnapshots(t) ==
  { Snapshot(3, 2, <<FileA1, FileB>>, [documents |-> 2, images |-> 1], t),
    Snapshot(3, 4, <<>>, EmptyMapping, t) }

initializeDashboard(theme, initialTab, mockData) ==
  LET started == setLoading(setActiveTab(setTheme(uiState, theme), initialTab), TRUE)
      validation == validateStorageData(FixData(mockData))
  IN /\ IF validation.isValid
        THEN /\ value' = validation.data
             /\ alias' = [snap |-> FALSE, files |-> FALSE, sbt |-> FALSE,
                          arg |-> ~NeedsScaling(mockData.storageByType,
                                                mockData.usedStorage)]
             /\ last' = Call("initializeDashboard", FALSE, <<>>, subscribers.storage)
        ELSE /\ last' = Call("initializeDashboard", TRUE, validation.errors, <<>>)
             /\ UNCHANGED <<value, alias>>
     /\ uiState' = setLoading(started, FALSE)
     /\ UNCHANGED <<initialStorageData, now, subscribers, tabs, subscriber_queue,
                    stack, version, registered, calls, log, ret, fetches>>

NextDashboard ==
  \/ \E theme \in {"auto", "dark"} : \E mockData \in MockSnapshots(now) :
       initializeDashboard(theme, "storage-overview", mockData)
  \/ NextFetch

SpecDashboard == Init /\ [][NextDashboard]_vars

(***************************************************************************)
(* sortFiles(files, sortBy, order) (utils/sortFiles.ts 22-70), applied to  *)
(* one argument list.  The records are FileItems: size is a finite number  *)
(* and lastModified a valid Date, so the comparator is a consistent one    *)
(* and Array.prototype.sort, which is stable, has one possible result.     *)
(* String.prototype.localeCompare is modelled by the position of the two   *)
(* strings in Collation.                                                   *)
(***************************************************************************)
MaxSortLen == 3   \* the longest list handed to sortFiles

SortFile1 == [id |-> "1", name |-> "c.txt", size |-> 1, type |-> "text/plain",
              lastModified |-> 2, path |-> "/c.txt"]
SortFile2 == [id |-> "2", name |-> "a1.txt", size |-> 2, type |-> "image/png",
              lastModified |-> 0, path |-> "/a1.txt"]
SortFile3 == [id |-> "3", name |-> "b.png", size |-> 1, type |-> "image/png",
              lastModified |-> 1, path |-> "/b.png"]

SortFileInputs == {SortFile1, SortFile2, SortFile3, FileA2}

\* the strings of the records, in the order localeCompare gives them
Collation == <<"a1.txt", "a2.txt", "b.png", "c.txt", "image/png", "text/plain">>

CollationRank(str) == CHOOSE i \in 1..Len(Collation) : Collation[i] = str

\* a.localeCompare(b)
localeCompare(a, b) ==
  IF CollationRank(a) < CollationRank(b) THEN -1
  ELSE IF CollationRank(a) > CollationRank(b) THEN 1 ELSE 0

\* lines 46-67: the comparator handed to sortedFiles.sort
comparator(a, b, sortBy, order) ==
  LET result == CASE sortBy = "name" -> localeCompare(a.name, b.name)
                  [] sortBy = "size" -> a.size - b.size
                  [] sortBy = "date" -> a.lastModified - b.lastModified
                  [] sortBy = "type" -> localeCompare(a.type, b.type)
                  [] OTHER -> 0
  IN IF order = "desc" THEN -result ELSE result

\* x put behind the last record of a sorted list that does not come after it
RECURSIVE InsertFile(_, _, _, _)
InsertFile(sorted, x, sortBy, order) ==
  IF sorted = <<>> THEN <<x>>
  ELSE IF comparator(Head(sorted), x, sortBy, order) > 0 THEN <<x>> \o sorted
  ELSE <<Head(sorted)>> \o InsertFile(Tail(sorted), x, sortBy, order)

\* Array.prototype.sort with the comparator: a stable sort
RECURSIVE StableSort(_, _, _)
StableSort(list, sortBy, order) ==
  IF list = <<>> THEN <<>>
  ELSE InsertFile(StableSort(SubSeq(list, 1, Len(list) - 1), sortBy, order),
                  list[Len(list)], sortBy, order)

\* the outcome of a call: threw and message, or the array returned; `files`
\* is the argument array once the call is over and `fresh` says whether the
\* array returned is another object than the argument
SortReturn(threw, message, files, result, fresh) ==
  [threw |-> threw, message |-> message, files |-> files, result |-> result,
   fresh |-> fresh]

\* files.sort(...) on the argument itself, returned
sortFilesInPlace(files, sortBy, order) ==
  IF ~files.isArray
  THEN SortReturn(TRUE, "Files must be an array", files, <<>>, FALSE)
  ELSE IF sortBy \notin {"name", "size", "date", "type"}
  THEN SortReturn(TRUE, "Invalid sortBy field: " \o sortBy
                        \o ". Must be one of: name, size, date, type",
                  files, <<>>, FALSE)
  ELSE IF order # "asc" /\ order # "desc"
  THEN SortReturn(TRUE, "Invalid order: " \o order \o ". Must be 'asc' or 'desc'",
                  files, <<>>, FALSE)
  ELSE SortReturn(FALSE, "",
                  [files EXCEPT !.items = StableSort(files.items, sortBy, order)],
                  StableSort(files.items, sortBy, order), FALSE)

\* sortFiles.ts 22-70
sortFiles(files, sortBy, order) ==
  IF ~files.isArray
  THEN SortReturn(TRUE, "Files must be an array", files, <<>>, FALSE)
  ELSE IF sortBy \notin {"name", "size", "date", "type"}
  THEN SortReturn(TRUE, "Invalid sortBy field: " \o sortBy
                        \o ". Must be one of: name, size, date, type",
                  files, <<>>, FALSE)
  ELSE IF order # "asc" /\ order # "desc"
  THEN SortReturn(TRUE, "Invalid order: " \o order \o ". Must be 'asc' or 'desc'",
                  files, <<>>, FALSE)
  ELSE SortReturn(FALSE, "", files, StableSort(files.items, sortBy, order), TRUE)

\* the lists of at most MaxSortLen records
SortLists ==
  UNION { [1..n -> SortFileInputs] : n \in 0..MaxSortLen }

\* the arguments of a call: an array or null, a sortBy and an order
SortInputs ==
  { [files |-> f, sortBy |-> sb, order |-> o] :
      f \in { [isArray |-> TRUE, items |-> l] : l \in SortLists }
            \cup { [isArray |-> FALSE, items |-> <<>>] },
      sb \in {"name", "size", "date", "type", "invalid"},
      o \in {"asc", "desc", "invalid"} }

InitSort ==
  /\ value = InitialSnapshot
  /\ initialStorageData = InitialSnapshot
  /\ alias = [snap |-> TRUE, files |-> TRUE, sbt |-> TRUE, arg |-> FALSE]
  /\ now = StartTime
  /\ subscribers = [st \in Stores |-> <<>>]
  /\ \E arg \in SortInputs :
       last = [op |-> "input", threw |-> FALSE, errors |-> <<>>,
               notified |-> <<>>, arg |-> arg]
  /\ uiState = initialUIState
  /\ tabs = <<>>
  /\ subscriber_queue = <<>>
  /\ stack = <<>>
  /\ version = [st \in Stores |-> 0]
  /\ registered = [st \in Stores |-> <<>>]
  /\ calls = [st \in Stores |-> [s \in ObserversOf[st] |-> <<>>]]
  /\ log = [st \in Stores |-> <<>>]
  /\ ret = NoReturn
  /\ fetches = NoFetches

\* const result = sortFiles(arg.files, arg.sortBy, arg.order)
SortFiles ==
  /\ last.op = "input"
  /\ LET out == sortFiles(last.arg.files, last.arg.sortBy, last.arg.order)
     IN last' = [op |-> "sortFiles", threw |-> out.threw, errors |-> <<>>,
                 notified |-> <<>>, arg |-> last.arg, out |-> out]
  /\ UNCHANGED <<value, initialStorageData, alias, now, subscribers, engineVars>>

SpecSort == InitSort /\ [][SortFiles]_vars

(***************************************************************************)
(* The derived stores of storageStore (storageStore.ts 252-268), read from *)
(* the stored snapshot.  A percentage is kept as the exact fraction        *)
(* num / den; the rounding of IEEE doubles is not modelled.                *)
(***************************************************************************)
\* total === 0 ? 0 : (used / total) * 100
storagePercentage(s) ==
  IF s.totalStorage = 0 THEN [num |-> 0, den |-> 1]
  ELSE [num |-> s.usedStorage * 100, den |-> s.totalStorage]

\* total - used
availableStorage(s) == s.totalStorage - s.usedStorage

(***************************************************************************)
(* Properties of the storage store.                                        *)
(***************************************************************************)
\* the aggregate invariants of a snapshot
AggregateInvariant(s) ==
  /\ s.totalStorage > 0
  /\ 0 <= s.usedStorage
  /\ s.usedStorage <= s.totalStorage
  /\ \A k \in DOMAIN s.storageByType : s.storageByType[k] >= 0
  /\ SumValues(s.storageByType) <= s.usedStorage

\* C1: in every state reachable by calls of the public operations, accepted
\* or rejected, the stored snapshot satisfies the aggregate invariants
\* (totalStorage > 0, 0 <= usedStorage <= totalStorage, every storageByType
\* value >= 0, sum of storageByType <= usedStorage).
C1_PublishedSnapshotValid == AggregateInvariant(value)

\* C2: a call that throws carries at least one violated-check message, leaves
\* the stored snapshot exactly as it was and notifies no subscriber.
C2_RejectionChangesNothing ==
  [][last'.threw =>
       /\ last'.errors # <<>>
       /\ value' = value
       /\ last'.notified = <<>>]_vars

\* v is Math.floor(x * usedStorage / sum) for sum > 0
IsFloorOf(v, x, usedStorage, sum) ==
  /\ v * sum <= x * usedStorage
  /\ x * usedStorage < (v + 1) * sum

\* a mapping of non-negative values whose positive sum exceeds usedStorage
Oversized(m, usedStorage) ==
  /\ \A k \in DOMAIN m : m[k] >= 0
  /\ SumValues(m) > 0
  /\ SumValues(m) > usedStorage

\* the state after the step holds mapping m scaled to usedStorage
StoredScaled(m, usedStorage) ==
  /\ ~last'.threw
  /\ DOMAIN value'.storageByType = DOMAIN m
  /\ \A k \in DOMAIN m :
       IsFloorOf(value'.storageByType[k], m[k], usedStorage, SumValues(m))
  /\ SumValues(value'.storageByType) <= value'.usedStorage
  /\ value'.usedStorage = usedStorage
  /\ last'.notified = subscribers.storage

C4_RejectedUpdateLeavesSnapshot ==
  [][(last'.op = "update" /\ last'.threw) => value' = value]_vars

(***************************************************************************)
(* Properties of notification (SpecNotify).                                *)
(***************************************************************************)
\* the calls of a callback after the one made when it subscribed
Live(cs) == Tail(cs)

Consecutive(first, seq) == \A i \in 1..Len(seq) : seq[i] = first + i

RECURSIVE Rounds(_, _)
Rounds(regs, i) ==
  IF i > Len(regs) THEN <<>>
  ELSE [j \in 1..Len(regs[i].subs) |-> <<i, regs[i].subs[j]>>] \o Rounds(regs, i + 1)

IsPrefix(a, b) == Len(a) <= Len(b) /\ SubSeq(b, 1, Len(a)) = a

RoundsInOrder(st) ==
  /\ IsPrefix(log[st], Rounds(registered[st], 1))
  /\ Quiet => log[st] = Rounds(registered[st], 1)

\* every set of st that had a subscriber to call came from an accepted mutation
OnlyAccepted(st) ==
  \A i \in 1..Len(registered[st]) :
    registered[st][i].subs # <<>> => registered[st][i].accepted

C8_HolderCannotChangeSnapshot ==
  [][last'.op \in {"holderWrite", "callerWrite"} =>
       (value' = value /\ AggregateInvariant(value'))]_vars

\* the operations that stamp lastUpdated with new Date()
StampingOps ==
  {"updateUsedStorage", "updateTotalStorage", "updateFiles", "addFile",
   "removeFile", "updateStorageByType", "updateTimestamp", "reset"}

MutationOps == StampingOps \cup {"set", "update"}

\* a step made by a call recorded in last (not the passing of time)
IsCall == now' = now

\* C9 as stated: every accepted mutation, set and update included, leaves
\* lastUpdated at the time of that mutation.
C9_EveryMutationStamps ==
  [][(IsCall /\ last'.op \in MutationOps /\ ~last'.threw) =>
       value'.lastUpdated = now]_vars

\* C9 as amended: the field-scoped helpers, updateTimestamp and reset leave
\* lastUpdated at the time of the call; set(d) and update(() => d) store the
\* lastUpdated that d carries.
C9_HelpersStamp ==
  [][/\ (IsCall /\ last'.op \in StampingOps /\ ~last'.threw) =>
          value'.lastUpdated = now
     /\ (last'.op = "set" /\ ~last'.threw) =>
          \A d \in Candidates :
            (value'.lastUpdated # d.lastUpdated) => ~Set(d)
     /\ (last'.op = "update" /\ ~last'.threw) =>
          \A d \in ReturnedCandidates :
            (value'.lastUpdated # d.lastUpdated) => ~Update(ConstUpdater(d))]_vars

C9_Witness ==
  /\ last.op = "updateUsedStorage"
  /\ ~last.threw
  /\ now > StartTime
  /\ value.lastUpdated = now

\* the list without any record whose id is fileId
WithoutId(files, fileId) == SelectSeq(files, LAMBDA f : f.id # fileId)

NoFileHas(files, id) == \A i \in 1..Len(files) : files[i].id # id

\* the four fields of a snapshot other than lastUpdated
Payload(s) == <<s.totalStorage, s.usedStorage, s.files, s.storageByType>>

\* C11: from every reachable state, removeFile(id) with an id that no stored
\* file has does not throw and leaves totalStorage, usedStorage, files and
\* storageByType as they were.
C11_RemoveAbsentIsNoOp ==
  [][last'.op = "removeFile" =>
       \A id \in FileIds :
         (NoFileHas(value.files, id) /\ removeFile(id)) =>
           (~last'.threw /\ Payload(value') = Payload(value))]_vars

\* C12: removeFile(id) always leaves lastUpdated at the current time and
\* notifies the subscribers, also when no stored file has that id.
C12_RemoveAlwaysStamps ==
  [][last'.op = "removeFile" =>
       /\ ~last'.threw
       /\ value'.lastUpdated = now
       /\ last'.notified = subscribers.storage]_vars

\* C13: addFile(f) with a record f that passes validateFileItem makes files
\* the previous files followed by f.
C13_AddFileAppends ==
  [][last'.op = "addFile" =>
       \A f \in FileInputs :
         (validateFileItem(f) /\ addFile(f)) =>
           (~last'.threw /\ value'.files = Append(value.files, f))]_vars

\* C14: updateTimestamp changes only lastUpdated (to the current time):
\* totalStorage, usedStorage, files and storageByType are unchanged, and the
\* call never throws, whatever snapshot is stored, since it runs neither the
\* correction nor the validation.
C14_TimestampOnly ==
  [][last'.op = "updateTimestamp" =>
       /\ ~last'.threw
       /\ Payload(value') = Payload(value)
       /\ value'.lastUpdated = now
       /\ last'.notified = subscribers.storage]_vars

\* updateTimestamp has succeeded on a snapshot that validation would reject
C14_Witness ==
  /\ last.op = "updateTimestamp"
  /\ ~last.threw
  /\ ~AggregateInvariant(value)

\* C15: from every reachable state reset() does not throw and leaves the
\* store with the fixed default totalStorage, usedStorage, files and
\* storageByType, whatever ran before, and lastUpdated at the current time.
C15_ResetRestoresDefaults ==
  [][last'.op = "reset" =>
       /\ ~last'.threw
       /\ Payload(value') = Payload(InitialSnapshot)
       /\ value'.lastUpdated = now]_vars

\* the fraction p lies between lo and hi
FractionWithin(p, lo, hi) ==
  IF p.den > 0 THEN lo * p.den <= p.num /\ p.num <= hi * p.den
  ELSE lo * p.den >= p.num /\ p.num >= hi * p.den

\* C16: in every reachable state the derived values agree with the stored
\* snapshot and are in range: availableStorage is totalStorage - usedStorage
\* and >= 0, storagePercentage is usedStorage / totalStorage * 100 and lies
\* between 0 and 100.
C16_DerivedInRange ==
  /\ availableStorage(value) + value.usedStorage = value.totalStorage
  /\ availableStorage(value) >= 0
  /\ storagePercentage(value).num * value.totalStorage =
       value.usedStorage * 100 * storagePercentage(value).den
  /\ FractionWithin(storagePercentage(value), 0, 100)

\* C17: an accepted set(d) or updateStorageByType(m) whose mapping sums to
\* at most usedStorage stores that mapping exactly as given: same keys and
\* same values, not scaled and not floored.
C17_FittingMappingStoredAsGiven ==
  [][/\ last'.op = "set" =>
          \A d \in Candidates :
            (/\ SumValues(d.storageByType) <= d.usedStorage
             /\ Set(d) /\ ~last'.threw)
            => value'.storageByType = d.storageByType
     /\ last'.op = "updateStorageByType" =>
          \A m \in MappingInputs :
            (/\ SumValues(m) <= value.usedStorage
             /\ updateStorageByType(m) /\ ~last'.threw)
            => value'.storageByType = m]_vars

C17_Witness ==
  /\ last.op \in {"set", "updateStorageByType"}
  /\ ~last.threw
  /\ value.usedStorage = 2
  /\ value.storageByType = [documents |-> 1]

(***************************************************************************)
(* Properties of the UI store (SpecUI).                                    *)
(***************************************************************************)
\* the step leaves every field of the UI state but one as it was
OnlyFieldChanged(field) ==
  /\ DOMAIN uiState' = DOMAIN uiState
  /\ \A f \in DOMAIN uiState \ {field} : uiState'[f] = uiState[f]

\* C18: every setter of the UI store changes its own field only:
\* setActiveTab activeTabId, setTheme theme, setLoading isLoading, setError
\* and clearError error, which clearError sets to null; the three other
\* fields keep the values they had before the call.
C18_SettersChangeOwnField ==
  [][/\ last'.op = "setActiveTab" => OnlyFieldChanged("activeTabId")
     /\ last'.op = "setTheme" => OnlyFieldChanged("theme")
     /\ last'.op = "setLoading" => OnlyFieldChanged("isLoading")
     /\ last'.op = "setError" => OnlyFieldChanged("error")
     /\ last'.op = "clearError" =>
          OnlyFieldChanged("error") /\ uiState'.error = "null"]_vars

C18_Witness ==
  /\ last.op = "setTheme"
  /\ uiState = [activeTabId |-> "files", theme |-> "dark",
                isLoading |-> TRUE, error |-> "disk full"]

(***************************************************************************)
(* Properties of the tab registry (SpecTabs).                              *)
(***************************************************************************)
\* C19: registerTab(entry) returns true exactly when no registered tab has
\* entry.id; when one has, it returns false and leaves the list as it was,
\* with the first entry, its label and its position; after the call
\* hasTab(entry.id) is true in both cases.
C19_RegisterRejectsDuplicates ==
  [][last'.op = "registerTab" =>
       /\ last'.returned = ~HasTabId(tabs, last'.arg.id)
       /\ HasTabId(tabs, last'.arg.id) => (~last'.returned /\ tabs' = tabs)
       /\ hasTab(tabs', last'.arg.id)]_vars

C19_Witness ==
  /\ last.op = "registerTab"
  /\ last.arg = TabOneAgain
  /\ ~last.returned
  /\ Len(tabs) = 3
  /\ tabs[2] = TabOne

\* ascending order of effective order
SortedByOrder(list) ==
  \A i \in 1..(Len(list) - 1) :
    (IF list[i].hasOrder THEN list[i].order ELSE 100)
      <= (IF list[i + 1].hasOrder THEN list[i + 1].order ELSE 100)

\* C20: after any sequence of registerTab, unregisterTab, set and clear
\* calls the list is in ascending order of effective order (order, or 100
\* when order is absent), with orders that are negative, zero or absent.
C20_ListSortedByEffectiveOrder == SortedByOrder(tabs)

C20_Witness ==
  /\ last.op = "setTabs"
  /\ Len(tabs) = 3
  /\ tabs[1] = TabZero
  /\ ~tabs[2].hasOrder /\ ~tabs[3].hasOrder

\* the position of an entry in a list that holds it
PositionOf(list, t) == CHOOSE i \in 1..Len(list) : list[i] = t

Holds(list, t) == \E i \in 1..Len(list) : list[i] = t

\* the step keeps the relative position of every two entries of equal order
\* that are in the list before and after it
NoSwapOfEqualOrder ==
  \A i, j \in 1..Len(tabs) :
    (/\ i < j
     /\ EffectiveOrder(tabs[i]) = EffectiveOrder(tabs[j])
     /\ Holds(tabs', tabs[i]) /\ Holds(tabs', tabs[j]))
    => PositionOf(tabs', tabs[i]) < PositionOf(tabs', tabs[j])

\* the entry the step added stands behind every other entry of its order
NewEntryAfterEqual(id) ==
  \A i, j \in 1..Len(tabs') :
    (/\ tabs'[i].id = id /\ i # j
     /\ EffectiveOrder(tabs'[j]) = EffectiveOrder(tabs'[i]))
    => j < i

\* C21: tabs of equal effective order keep their insertion order: a tab
\* registered with the order of already registered tabs is placed after all
\* of them, and registerTab and unregisterTab never swap two entries of
\* equal order.
C21_EqualOrderKeepsInsertionOrder ==
  [][/\ (last'.op = "registerTab" /\ last'.returned) =>
          NewEntryAfterEqual(last'.arg.id) /\ NoSwapOfEqualOrder
     /\ (last'.op = "registerTab" /\ ~last'.returned) => NoSwapOfEqualOrder
     /\ last'.op = "unregisterTab" => NoSwapOfEqualOrder]_vars

C21_Witness ==
  /\ last.op = "registerTab" /\ last.returned
  /\ last.arg = TabNoOrder
  /\ Len(tabs) = 4
  /\ tabs[2].id = "t5" /\ tabs[3].id = "t1" /\ tabs[3].label = "Other"
  /\ tabs[4].id = "t4"

\* C22: in every state reached from the empty registry by registerTab,
\* unregisterTab, clear and set calls whose argument has pairwise distinct
\* ids, no two entries of the list have the same id.
C22_IdsAreUnique ==
  \A i, j \in 1..Len(tabs) : i # j => tabs[i].id # tabs[j].id

C22_Witness ==
  /\ last.op = "registerTab" /\ ~last.returned
  /\ last.arg = TabOne
  /\ Len(tabs) = 3
  /\ \E i \in 1..3 : tabs[i].id = "t1" /\ tabs[i].label = "Other"

(***************************************************************************)
(* Properties of the tab registry with subscribers (SpecTabsObserved).     *)
(***************************************************************************)
\* what unregisterTab(id) returns and leaves in the list
UnregisterOutcome ==
  /\ last'.returned = HasTabId(tabs, last'.arg)
  /\ ~HasTabId(tabs', last'.arg)
  /\ tabs' = SelectSeq(tabs, LAMBDA t : t.id # last'.arg)
  /\ ~HasTabId(tabs, last'.arg) => tabs' = tabs

FiniteNumber(x) == x.js = "number"

\* one of the aggregate checks fails on raw
AggregateCheckFails(raw) ==
  \/ ~raw.isObject
  \/ ~(FiniteNumber(raw.totalStorage) /\ raw.totalStorage.n > 0)
  \/ ~(FiniteNumber(raw.usedStorage) /\ raw.usedStorage.n >= 0)
  \/ raw.usedStorage.n > raw.totalStorage.n
  \/ ~raw.files.isArray
  \/ raw.storageByType.kind # "object"
  \/ \E k \in DOMAIN raw.storageByType.m :
       ~(FiniteNumber(raw.storageByType.m[k]) /\ raw.storageByType.m[k].n >= 0)
  \/ SumValues([k \in DOMAIN raw.storageByType.m |-> raw.storageByType.m[k].n])
       > raw.usedStorage.n
  \/ ~raw.lastUpdated.isDate
  \/ raw.lastUpdated.time = InvalidDate

\* C24: validateStorageData returns isValid = false with data = null and at
\* least one message whenever an aggregate check fails (totalStorage,
\* usedStorage, usedStorage > totalStorage, files, storageByType and its
\* sum, lastUpdated), and isValid = true with data that is not null exactly
\* when none fails.
C24_InvalidExactlyWhenCheckFails ==
  last.op = "validateStorageData" =>
    /\ last.result.isValid = ~AggregateCheckFails(last.arg)
    /\ ~last.result.isValid =>
         (last.result.data = NoData /\ Len(last.result.errors) >= 1)
    /\ last.result.isValid => last.result.data # NoData

C24_Witness ==
  /\ last.op = "validateStorageData"
  /\ ~last.result.isValid
  /\ last.arg.isObject
  /\ last.arg.totalStorage = [js |-> "number", n |-> 3]
  /\ last.arg.usedStorage = [js |-> "number", n |-> 2]
  /\ last.arg.storageByType.kind = "object"
  /\ last.result.errors = <<"Sum of storageByType cannot exceed usedStorage">>

\* the number of records of the input that the result does not hold
Dropped(call) == Len(call.arg.files.items) - Len(call.result.data.files)

\* C25: when every aggregate check passes, validateStorageData returns
\* isValid = true and data.files is the input list restricted to the records
\* that pass validateFileItem, in their original order; the errors list is
\* exactly <<"Filtered out N invalid file item(s)">> when N > 0 records were
\* dropped and empty otherwise.
C25_InvalidFilesFilteredInOrder ==
  (last.op = "validateStorageData" /\ ~AggregateCheckFails(last.arg)) =>
    /\ last.result.isValid
    /\ last.result.data.files =
         SelectSeq(last.arg.files.items, LAMBDA f : validateFileItem(f))
    /\ last.result.errors =
         IF Dropped(last) > 0 THEN <<FilteredMessage(Dropped(last))>> ELSE <<>>

C25_Witness ==
  /\ last.op = "validateStorageData"
  /\ last.result.isValid
  /\ last.arg.files.items = <<FileNegSize, FileB, FileBlankId>>
  /\ last.result.data.files = <<FileB>>
  /\ last.result.errors = <<"Filtered out 2 invalid file item(s)">>

(***************************************************************************)
(* Properties of fetchStorageData (SpecFetch).                             *)
(***************************************************************************)
\* C26: isLoading is true in every state in which at least one
\* fetchStorageData call has issued its request and has not settled, also
\* when calls overlap, and false when no call is outstanding.
C26_LoadingWhileOutstanding ==
  uiState.isLoading = (\E c \in 1..MaxFetches : Outstanding(c))

\* C27: a fetchStorageData call that fails (network error, response that is
\* not ok, payload rejected by validation) sets UIState.error to the message
\* of the failure, "HTTP error! status: 404" for status 404, sets isLoading
\* to false, leaves the storage snapshot as it was and rejects.
C27_FailureSetsErrorAndClearsLoading ==
  [][last'.op = "fetchRejected" =>
       /\ last'.threw
       /\ uiState'.error = last'.message
       /\ uiState'.error # "null"
       /\ last'.input \in FailedResponses =>
            uiState'.error =
              (CASE last'.input.kind = "network" -> "Failed to fetch"
                 [] last'.input.status = 404 -> "HTTP error! status: 404"
                 [] OTHER -> "HTTP error! status: 500")
       /\ last'.input \in FetchPayloads =>
            uiState'.error \in
              { "Invalid storage data received: Sum of storageByType cannot exceed usedStorage",
                "Invalid storage data received: lastUpdated must be a valid Date object" }
       /\ ~uiState'.isLoading
       /\ value' = value]_vars

C27_Witness ==
  /\ last.op = "fetchRejected"
  /\ last.input = [kind |-> "http", status |-> 404]
  /\ uiState.error = "HTTP error! status: 404"
  /\ ~uiState.isLoading
  /\ \E c \in 1..MaxFetches : Outstanding(c)

\* the snapshot a successful call publishes for the parsed body rawData
PublishedPayload(rawData, t) ==
  [totalStorage |-> rawData.totalStorage.n,
   usedStorage |-> rawData.usedStorage.n,
   files |-> SelectSeq(rawData.files.items, LAMBDA f : validateFileItem(f)),
   storageByType |-> [k \in DOMAIN rawData.storageByType.m |->
                        rawData.storageByType.m[k].n],
   lastUpdated |-> t]

\* C28: when a fetchStorageData call completes successfully the storage
\* store holds the validated payload with lastUpdated at the current time
\* and UIState.error is null, also when other calls overlap with it.
C28_SuccessStoresPayloadAndNoError ==
  [][last'.op = "fetchResolved" =>
       /\ value' = PublishedPayload(last'.input, now)
       /\ uiState'.error = "null"]_vars

\* C29: a payload whose storageByType sum exceeds usedStorage makes
\* fetchStorageData reject with "Invalid storage data received: ...":
\* validation runs before the proportional correction of the store, which
\* is never applied, and the storage snapshot stays as it was.
C29_OversizedPayloadRejected ==
  [][\A c \in 1..MaxFetches :
       (/\ fetches[c].pc = "parsing"
        /\ fetches'[c].pc = "idle"
        /\ SumValues(Typed(fetches[c].body).storageByType)
             > fetches[c].body.usedStorage.n)
       => /\ last'.op = "fetchRejected" /\ last'.threw
          /\ last'.message =
               "Invalid storage data received: Sum of storageByType cannot exceed usedStorage"
          /\ value' = value]_vars

C29_Witness ==
  /\ last.op = "fetchRejected"
  /\ last.input \in FetchPayloads
  /\ SumValues(Typed(last.input).storageByType) = 5
  /\ last.input.usedStorage.n = 2
  /\ uiState.error =
       "Invalid storage data received: Sum of storageByType cannot exceed usedStorage"

C31_OversizedSumThrows ==
  [][/\ last'.op = "set" =>
          \A d \in Candidates :
            (SumValues(d.storageByType) > d.usedStorage /\ Set(d))
            => /\ last'.threw
               /\ last'.message = "Invalid storage data: " \o JoinErrors(last'.errors)
     /\ last'.op = "updateStorageByType" =>
          \A m \in MappingInputs :
            (SumValues(m) > value.usedStorage /\ updateStorageByType(m))
            => /\ last'.threw
               /\ last'.message = "Invalid storage data: " \o JoinErrors(last'.errors)]_vars

\* C32: initially and after every reset() the store holds totalStorage = 0,
\* usedStorage = 0, files = [] and storageByType = {}.
C32_InitialAndResetEmpty ==
  last.op \in {"init", "reset"} =>
    /\ value.totalStorage = 0
    /\ value.usedStorage = 0
    /\ value.files = <<>>
    /\ value.storageByType = EmptyMapping

(***************************************************************************)
(* Properties of sortFiles (SpecSort).                                     *)
(***************************************************************************)
\* the number of places of a list that hold record f
Occurrences(list, f) == Cardinality({i \in 1..Len(list) : list[i] = f})

IsPermutation(a, b) ==
  /\ Len(a) = Len(b)
  /\ \A f \in SortFileInputs : Occurrences(a, f) = Occurrences(b, f)

\* the key a record is sorted by; strings by their place in the collation
SortKey(f, sortBy) ==
  CASE sortBy = "name" -> CollationRank(f.name)
    [] sortBy = "size" -> f.size
    [] sortBy = "date" -> f.lastModified
    [] sortBy = "type" -> CollationRank(f.type)

OrderedBy(list, sortBy, order) ==
  \A i, j \in 1..Len(list) :
    i < j => IF order = "asc"
             THEN SortKey(list[i], sortBy) <= SortKey(list[j], sortBy)
             ELSE SortKey(list[i], sortBy) >= SortKey(list[j], sortBy)

\* C33: for a list of files, sortBy in {name, size, date, type} and order in
\* {asc, desc}, sortFiles returns a new list that is a permutation of the
\* input, ordered by the chosen key in the chosen direction, and leaves the
\* input list as it was; for another sortBy or order, or an input that is
\* not an array, it throws instead of returning.
C33_SortFilesContract ==
  last.op = "sortFiles" =>
    IF /\ last.arg.files.isArray
       /\ last.arg.sortBy \in {"name", "size", "date", "type"}
       /\ last.arg.order \in {"asc", "desc"}
    THEN /\ ~last.out.threw
         /\ last.out.fresh
         /\ IsPermutation(last.out.result, last.arg.files.items)
         /\ OrderedBy(last.out.result, last.arg.sortBy, last.arg.order)
         /\ last.out.files = last.arg.files
    ELSE last.out.threw

\* a list of three records that is out of order has been sorted by size,
\* largest first, the two records of equal size staying in their order
C33_Witness ==
  /\ last.op = "sortFiles"
  /\ last.arg.files.items = <<SortFile1, SortFile2, SortFile3>>
  /\ last.arg.sortBy = "size"
  /\ last.arg.order = "desc"
  /\ last.out.result = <<SortFile2, SortFile1, SortFile3>>

(***************************************************************************)
(* Properties of fetchStorageData as its subscribers see it                *)
(* (SpecFetchObserved).                                                    *)
(***************************************************************************)
\* C34: in a successful fetchStorageData call the snapshot is published and
\* isLoading is cleared by two separate writes, the snapshot first: the
\* write of the snapshot leaves UIState as it is, the write that clears
\* isLoading comes next and leaves the snapshot as it is, and no step
\* changes both stores.  (The state between the two, in which the store
\* holds the fetched data and isLoading is still true, is C34_Witness.)
C34_SnapshotThenLoading ==
  [][/\ ~(value' # value /\ uiState' # uiState)
     /\ \A c \in 1..MaxFetches :
          /\ (fetches[c].pc = "parsing" /\ fetches'[c].pc # "parsing") =>
               \/ last'.op = "fetchRejected" /\ value' = value
               \/ /\ fetches'[c].pc = "published"
                  /\ value' = PublishedPayload(fetches[c].body, now)
                  /\ uiState' = uiState
          /\ (fetches[c].pc # "idle" /\ fetches'[c].pc = "idle"
                /\ last'.op = "fetchResolved") =>
               /\ fetches[c].pc = "published"
               /\ value = PublishedPayload(fetches[c].body, now)
               /\ value' = value
               /\ ~uiState'.isLoading]_vars

\* a subscriber of the storage store has been handed the fetched snapshot
\* while isLoading is still true
C34_Witness ==
  /\ last.op = "fetchPublished"
  /\ last.notified = <<"s1">>
  /\ value = PublishedPayload(last.input, now)
  /\ value.files = <<FileA1>>
  /\ uiState.isLoading

(***************************************************************************)
(* Properties of the storage store that its code implies.                  *)
(***************************************************************************)
\* C35: for every candidate d and every current state, set(d) and
\* update(() => d) have the same outcome: both throw with the same message
\* and leave the state as it was, or both publish the same corrected and
\* filtered snapshot.  Stated on a step of set(d): update(() => d), made in
\* the same state, ends in the same state (snapshot, message, errors,
\* subscribers notified), and a call that throws leaves the snapshot alone.
C35_SetEqualsConstantUpdate ==
  [][last'.op = "set" =>
       \A d \in Candidates :
         Set(d) => /\ customUpdate("set", ConstUpdater(d))
                   /\ last'.threw => value' = value
                   /\ ~last'.threw =>
                        value' = validateStorageData(FixData(d)).data]_vars

\* set(d) has thrown for a candidate whose usedStorage exceeds totalStorage,
\* in a state other than the initial one
C35_Witness ==
  /\ last.op = "set"
  /\ last.threw
  /\ last.message = "Invalid storage data: usedStorage cannot exceed totalStorage"
  /\ value.totalStorage = 3
  /\ value.files # <<>>

ErrorsWithoutFiles ==
  validateStorageData(
    FixData([value EXCEPT !.files = <<>>, !.lastUpdated = now])).errors

\* the outcome of a call that makes `list` the files of its candidate
FilesOutcome(list) ==
  /\ last'.threw = (ErrorsWithoutFiles # <<>>)
  /\ last'.threw => last'.errors = ErrorsWithoutFiles
  /\ ~last'.threw =>
       /\ value'.files = SelectSeq(list, LAMBDA f : validateFileItem(f))
       /\ value'.lastUpdated = now
       /\ last'.notified = subscribers.storage

C38_StoredFilesValid ==
  \A i \in 1..Len(value.files) : validateFileItem(value.files[i])

(***************************************************************************)
(* Overlapping calls of fetchStorageData (SpecFetch).                      *)
(***************************************************************************)
\* C39: when fetchStorageData calls overlap and succeed, the snapshot left
\* is the payload of the call whose response was processed last, whichever
\* call was made last: the response of an earlier call that arrives late
\* overwrites the data of a later call.  As long as the last event is the
\* return of a call, the store holds the payload of that call, also when
\* calls made after it have published theirs before.
C39_LastProcessedResponseWins ==
  last.op = "fetchResolved" =>
    /\ Payload(value) = Payload(PublishedPayload(last.input, now))
    /\ value.lastUpdated <= now

\* every call has settled; the one that returned last was made before a
\* call that has published other data in between, and the store holds the
\* payload of the one that returned last
C39_Witness ==
  /\ last.op = "fetchResolved"
  /\ \A c \in 1..MaxFetches : fetches[c].pc = "idle"
  /\ \E body \in last.overtakenBy :
       Payload(PublishedPayload(body, now)) # Payload(PublishedPayload(last.input, now))
  /\ Payload(value) = Payload(PublishedPayload(last.input, now))

====
